---- MODULE Spec2Model ----
(***************************************************************************)
(* Keyspace engine of EchoVault: the store with per-key expiry, the        *)
(* volatile-key index, the eviction cache, the command dispatcher with its *)
(* snapshot barrier, the active TTL sampler and the memory governor.       *)
(*                                                                         *)
(* Every goroutine is a thread with a program counter; a handler's store   *)
(* operation is split at its lock acquisition, at each loop iteration and  *)
(* at its return, and the two barrier flags are read and written by        *)
(* separate atomic loads and stores, as in the source.                     *)
(***************************************************************************)
EXTENDS Integers, Sequences, FiniteSets, TLC

\* ------------------------------------------------------------------ bounds
MaxTime == 2       \* the clock runs over 1..MaxTime
MaxCmds == 2       \* commands dispatched, over all connections
MaxSnaps == 1      \* getState calls of the snapshot thread
MaxSweeps == 1     \* invocations of the TTL sampler by its ticker

Keys == {"k1", "k2"}
Values == {"a", "b"}
NilValue == "nil"               \* Go's nil interface{} (a missing map entry's Value)
ZeroTime == 0                   \* time.Time{}: no expiry
Times == 1..MaxTime

Dispatchers == {"d1", "d2"}     \* one goroutine per accepted connection
Snap == "snap"                  \* the snapshot collaborator calling getState
Sampler == "sampler"            \* the TTL sampler's ticker goroutine
Bg == "bg"                      \* a background cache-update goroutine
NoThread == "none"

Policies ==
  {"noeviction", "allkeys-lfu", "allkeys-lru", "volatile-lfu", "volatile-lru",
   "allkeys-random", "volatile-random"}
LFUPolicies == {"allkeys-lfu", "volatile-lfu"}
LRUPolicies == {"allkeys-lru", "volatile-lru"}

ErrNone == ""
ErrMaxMemory == "max memory reached, key value not set"
ErrNotLeader == "not cluster leader, cannot carry out command"
ErrHandler == "handler error"
ErrACL == "not authorized"
OkResponse == "+OK"

\* A reply that is one string rather than getValues' map.
Reply(text) == [response |-> text]

VARIABLES
  store,                    \* server.store: key -> KeyData
  keysWithExpiry,           \* server.keysWithExpiry.keys: the volatile-key index
  cache,                    \* keys held by the active eviction cache
  now,                      \* server.clock.Now()
  heapInUse,                \* runtime.MemStats.HeapInuse
  storeLock,                \* server.storeLock: the goroutine holding it in write mode
  stateCopyInProgress,      \* atomic.Bool
  stateMutationInProgress,  \* atomic.Bool
  config,                   \* server.config and the node's raft role
  cmds,                     \* the commands the clients send
  pc,                       \* each goroutine's position
  cur,                      \* handleCommand: the command being dispatched
  idx,                      \* getValues: position in keys
  hlocal,                   \* a handler's local variables
  todo,                     \* setValues: entries not yet written; sampler: keys not yet deleted
  values,                   \* getValues: the map being returned
  ret,                      \* handleCommand: what the last call did and returned
  nCmds,                    \* commands received so far on each connection
  pending,                  \* keys with a scheduled (go func) cache update not yet run
  sample,                   \* sampler: sampleSize and deletedCount of the current round
  nSweeps,                  \* sampler invocations so far
  snapshot,                 \* getState: the copy being built / returned
  nSnaps,                   \* getState calls so far
  raftLog,                  \* envelopes handed to consensus-apply
  forwarded,                \* requests forwarded to the leader over gossip
  aofPending,               \* go aofEngine.QueueCommand(message) goroutines not yet run
  aofLog,                   \* messages queued in the append-only log, in order
  held,                     \* lock order: the locks each goroutine holds, with their mode
  prog                      \* lock order: the lock events left in each goroutine's call

storeVars == <<store, keysWithExpiry, cache>>
envVars == <<now, heapInUse>>
flagVars == <<stateCopyInProgress, stateMutationInProgress>>
lockVars == <<held, prog>>
\* What no store operation changes.
cfgVars == <<config, cmds, lockVars>>
dispVars == <<cur, idx, hlocal, todo, values, ret, nCmds>>
samplerVars == <<sample, nSweeps>>
snapVars == <<snapshot, nSnaps>>
outVars == <<raftLog, forwarded, aofPending, aofLog>>
vars ==
  <<storeVars, envVars, flagVars, cfgVars, dispVars, samplerVars, snapVars, outVars,
    storeLock, pc, pending>>

\* ------------------------------------------------------------ data helpers
KeyData(v, e) == [Value |-> v, ExpireAt |-> e]

\* A delete(f, k) that leaves the map as it is.
RemoveKeeps(f, k) == f

Remove(f, k) == [x \in DOMAIN f \ {k} |-> f[x]]

Put(f, k, v) == [x \in DOMAIN f \cup {k} |-> IF x = k THEN v ELSE f[x]]

Range(s) == {s[i] : i \in 1..Len(s)}

Contains(s, k) == k \in Range(s)

Count(s, k) == Cardinality({i \in 1..Len(s) : s[i] = k})

RECURSIVE DeleteFunc(_, _)
DeleteFunc(s, k) ==
  IF s = <<>> THEN <<>>
  ELSE IF Head(s) = k THEN DeleteFunc(Tail(s), k)
  ELSE <<Head(s)>> \o DeleteFunc(Tail(s), k)

isInCluster == config.mode # "standalone"
IsRaftLeader == config.mode = "leader"

\* entry.ExpireAt != (time.Time{}) && entry.ExpireAt.Before(server.clock.Now())
Expired(entry, t) == entry.ExpireAt # ZeroTime /\ entry.ExpireAt < t

\* internal.IsMaxMemoryExceeded(maxMemory): no limit when maxMemory is 0, else
\* heap-inuse at or over the limit.
IsMaxMemoryExceeded == config.maxMemory # 0 /\ heapInUse >= config.maxMemory

\* --------------------------------------------------------------- commands
\* A decoded command as the dispatcher sees it: the resolved Command's Sync flag,
\* whether its KeyExtractionFunc reports write keys, and the store operation its
\* handler performs (op = "invalid": the handler rejects the arguments).
\* One call of handleCommand: the command with its option flag (NX, XX, GT, LT or
\* none) and the call's replay, embedded and conn (conn != nil) parameters.
Request(name, write, sync, op, keys, val, exp, touch, flag, replay, embedded, conn) ==
  [name |-> name, write |-> write, sync |-> sync, op |-> op, keys |-> keys,
   val |-> val, exp |-> exp, touch |-> touch, flag |-> flag, replay |-> replay,
   embedded |-> embedded, conn |-> conn]

\* A command without an option flag, sent by a client over its connection.
Cmd(name, write, sync, op, keys, val, exp, touch) ==
  Request(name, write, sync, op, keys, val, exp, touch, "", FALSE, FALSE, TRUE)

NoCmd == Cmd("", FALSE, FALSE, "", <<>>, NilValue, 0, FALSE)

\* A handler's locals before it runs: the expiry it computed, the keys it counted.
NoLocal == [expireAt |-> ZeroTime, count |-> 0]

NoRet ==
  [done |-> FALSE, res |-> Reply(""), err |-> ErrNone, ran |-> FALSE, applied |-> FALSE,
   forwarded |-> FALSE, acl |-> FALSE]

Msg(d) == [conn |-> d, seq |-> nCmds[d], name |-> cur[d].name]

\* ------------------------------------------------------- eviction cache
\* The active cache (LFU or LRU heap) as the set of keys it holds. Update(key)
\* counts an access of key, entering the key when the cache does not hold it;
\* Delete(key) drops it; Pop() removes and returns the root.
CacheUpdate(c, key) == c \cup {key}

CacheDelete(c, key) == c \ {key}

\* ------------------------------------------------------------- deleteKey
\* deleteKey: the entry, the key's occurrences in the index, and the key in the
\* cache of an LFU or LRU policy.
deleteKey(key) ==
  /\ store' = Remove(store, key)
  /\ keysWithExpiry' = DeleteFunc(keysWithExpiry, key)
  /\ cache' = IF config.policy \in LFUPolicies \cup LRUPolicies
                THEN CacheDelete(cache, key) ELSE cache

\* The consensus-apply collaborator, called with a delete-key envelope.
raftApplyDeleteKey(key) ==
  raftLog' = raftLog \cup {[type |-> "delete-key", cmd |-> "", key |-> key]}

\* -------------------------------------------------------- handleCommand
RECURSIVE Sum(_, _)
Sum(f, S) == IF S = {} THEN 0 ELSE LET x == CHOOSE y \in S : TRUE IN f[x] + Sum(f, S \ {x})

Received == Sum(nCmds, Dispatchers)

\* handleCommand returns: its locals go out of scope.
Leave(d) ==
  /\ cur' = [cur EXCEPT ![d] = NoCmd]
  /\ idx' = [idx EXCEPT ![d] = 1]
  /\ values' = [values EXCEPT ![d] = <<>>]
  /\ hlocal' = [hlocal EXCEPT ![d] = NoLocal]

\* The ACL test without the embedded parameter.
AuthorizesEmbedded(c) == c.conn /\ config.acl

\* if conn != nil && server.acl != nil && !embedded
Authorizes(c) == c.conn /\ config.acl /\ ~c.embedded

\* if internal.IsWriteCommand(command, subCommand) { for { ... } }
AfterAuthorize(c) == IF c.write THEN "hc_wait" ELSE "hc_route"

\* A comparison of the first token with "quit" that minds the letter case.
EqualExact(s, t) == s = t

\* strings.EqualFold(s, t), over the spellings the clients send.
EqualFold(s, t) ==
  LET lower(x) == IF x \in {"QUIT", "Quit"} THEN "quit" ELSE x
  IN lower(s) = lower(t)

\* if len(cmd) == 0 { return nil, errors.New("empty command") }
\* if strings.EqualFold(cmd[0], "quit") { return nil, io.EOF }
\* (a decoded array is empty exactly when the request has no name)
PreDispatch(c) ==
  IF c.name = "" THEN "empty command"
  ELSE IF EqualFold(c.name, "quit") THEN "EOF" ELSE ErrNone

Begin(d) ==
  /\ pc[d] = "idle"
  /\ Received < MaxCmds
  /\ \E c \in cmds :
       /\ cur' = [cur EXCEPT ![d] = c]
       /\ pc' = [pc EXCEPT ![d] = IF PreDispatch(c) # ErrNone THEN "hc_reject"
                                  ELSE IF Authorizes(c) THEN "hc_acl"
                                  ELSE AfterAuthorize(c)]
  /\ ret' = [ret EXCEPT ![d] = NoRet]
  /\ nCmds' = [nCmds EXCEPT ![d] = @ + 1]
  /\ UNCHANGED <<storeVars, envVars, flagVars, cfgVars, idx, hlocal, todo, values,
                 samplerVars, snapVars, outVars, storeLock, pending>>

\* The return of an empty or quit command, before any command lookup.
Reject(d) ==
  /\ pc[d] = "hc_reject"
  /\ ret' = [ret EXCEPT ![d] = [@ EXCEPT !.err = PreDispatch(cur[d]), !.done = TRUE]]
  /\ pc' = [pc EXCEPT ![d] = "idle"]
  /\ Leave(d)
  /\ UNCHANGED <<storeVars, envVars, flagVars, cfgVars, todo, nCmds, samplerVars,
                 snapVars, outVars, storeLock, pending>>

\* if err = server.acl.AuthorizeConnection(conn, cmd, command, subCommand);
\* err != nil { return nil, err }: the collaborator allows or refuses.
Authorize(d) ==
  /\ pc[d] = "hc_acl"
  /\ \E allowed \in BOOLEAN :
       IF allowed
         THEN /\ ret' = [ret EXCEPT ![d].acl = TRUE]
              /\ pc' = [pc EXCEPT ![d] = AfterAuthorize(cur[d])]
              /\ UNCHANGED <<cur, idx, hlocal, values>>
         ELSE /\ ret' = [ret EXCEPT ![d] =
                           [@ EXCEPT !.acl = TRUE, !.err = ErrACL, !.done = TRUE]]
              /\ pc' = [pc EXCEPT ![d] = "idle"]
              /\ Leave(d)
  /\ UNCHANGED <<storeVars, envVars, flagVars, cfgVars, todo, nCmds, samplerVars,
                 snapVars, outVars, storeLock, pending>>

\* if !server.stateCopyInProgress.Load() { ... } : the load
WaitCopy(d) ==
  /\ pc[d] = "hc_wait"
  /\ ~stateCopyInProgress
  /\ pc' = [pc EXCEPT ![d] = "hc_setmut"]
  /\ UNCHANGED <<storeVars, envVars, flagVars, cfgVars, dispVars, samplerVars,
                 snapVars, outVars, storeLock, pending>>

\* server.stateMutationInProgress.Store(true)
SetMutation(d) ==
  /\ pc[d] = "hc_setmut"
  /\ stateMutationInProgress' = TRUE
  /\ pc' = [pc EXCEPT ![d] = "hc_route"]
  /\ UNCHANGED <<storeVars, envVars, stateCopyInProgress, cfgVars, dispVars,
                 samplerVars, snapVars, outVars, storeLock, pending>>

OpEntry(c) ==
  CASE c.op = "getValues" -> "gv_lock"
    [] c.op = "setValues" -> "sv_lock"
    [] c.op = "setExpiry" -> "se_lock"
    [] c.op = "deleteKey" -> "dk_lock"
    [] c.op = "set" -> "set_parse"
    [] c.op = "ttl" -> "ttl_exists"
    [] c.op = "expire" -> "exp_exists"
    [] c.op = "persist" -> "per_exists"
    [] c.op = "del" -> "del_count"
    [] c.op = "exists" -> "ex_exists"
    [] c.op = "keys" -> "gk_call"
    [] c.op = "incr" -> "incr_exists"
    [] OTHER -> "h_invalid"

\* The routing test without the command's sync flag.
RunsLocallyIgnoringSync(c) == ~isInCluster

RunsLocally(c) == ~isInCluster \/ ~c.sync

\* if !server.isInCluster() || !synchronize { res, err := handler(...) ...
RouteLocal(d) ==
  /\ pc[d] = "hc_route"
  /\ RunsLocally(cur[d])
  /\ ret' = [ret EXCEPT ![d].ran = TRUE]
  /\ pc' = [pc EXCEPT ![d] = OpEntry(cur[d])]
  /\ UNCHANGED <<storeVars, envVars, flagVars, cfgVars, cur, idx, hlocal, todo, values, nCmds,
                 samplerVars, snapVars, outVars, storeLock, pending>>

\* if server.raft.IsRaftLeader() { res, err = server.raftApplyCommand(ctx, cmd) ...
RouteLeader(d) ==
  /\ pc[d] = "hc_route"
  /\ ~RunsLocally(cur[d])
  /\ IsRaftLeader
  /\ raftLog' = raftLog \cup {[type |-> "command", cmd |-> cur[d].name, key |-> ""]}
  /\ \E e \in {ErrNone, "raft apply error"} :
       ret' = [ret EXCEPT ![d] =
                 [@ EXCEPT !.applied = TRUE, !.err = e,
                           !.res = Reply(IF e = ErrNone THEN "applied" ELSE ""),
                           !.done = TRUE]]
  /\ pc' = [pc EXCEPT ![d] = "idle"]
  /\ Leave(d)
  /\ UNCHANGED <<storeVars, envVars, flagVars, cfgVars, todo, nCmds, samplerVars,
                 snapVars, forwarded, aofPending, aofLog, storeLock, pending>>

\* if server.config.ForwardCommand { ForwardDataMutation(ctx, message); return OK }
RouteForward(d) ==
  /\ pc[d] = "hc_route"
  /\ ~RunsLocally(cur[d])
  /\ ~IsRaftLeader
  /\ config.forwardCommand
  /\ forwarded' = forwarded \cup {[type |-> "command", cmd |-> cur[d].name, key |-> ""]}
  /\ ret' = [ret EXCEPT ![d] =
               [@ EXCEPT !.forwarded = TRUE, !.res = Reply(OkResponse), !.done = TRUE]]
  /\ pc' = [pc EXCEPT ![d] = "idle"]
  /\ Leave(d)
  /\ UNCHANGED <<storeVars, envVars, flagVars, cfgVars, todo, nCmds, samplerVars,
                 snapVars, raftLog, aofPending, aofLog, storeLock, pending>>

\* return nil, errors.New("not cluster leader, cannot carry out command")
RouteNotLeader(d) ==
  /\ pc[d] = "hc_route"
  /\ ~RunsLocally(cur[d])
  /\ ~IsRaftLeader
  /\ ~config.forwardCommand
  /\ ret' = [ret EXCEPT ![d] = [@ EXCEPT !.err = ErrNotLeader, !.done = TRUE]]
  /\ pc' = [pc EXCEPT ![d] = "idle"]
  /\ Leave(d)
  /\ UNCHANGED <<storeVars, envVars, flagVars, cfgVars, todo, nCmds, samplerVars,
                 snapVars, outVars, storeLock, pending>>

\* A handler that rejects its arguments returns an error without a store call.
HandlerInvalid(d) ==
  /\ pc[d] = "h_invalid"
  /\ ret' = [ret EXCEPT ![d].err = ErrHandler]
  /\ pc' = [pc EXCEPT ![d] = "hc_after"]
  /\ UNCHANGED <<storeVars, envVars, flagVars, cfgVars, cur, idx, hlocal, todo, values, nCmds,
                 samplerVars, snapVars, outVars, storeLock, pending>>

\* if err != nil { return nil, err }
HandlerError(d) ==
  /\ pc[d] = "hc_after"
  /\ ret[d].err # ErrNone
  /\ ret' = [ret EXCEPT ![d] = [@ EXCEPT !.res = Reply(""), !.done = TRUE]]
  /\ pc' = [pc EXCEPT ![d] = "idle"]
  /\ Leave(d)
  /\ UNCHANGED <<storeVars, envVars, flagVars, cfgVars, todo, nCmds, samplerVars,
                 snapVars, outVars, storeLock, pending>>

\* if IsWriteCommand && !replay { go QueueCommand(message) };
\* server.stateMutationInProgress.Store(false); return res, err
\* The append-log test without the replay parameter.
EnqueuesOnReplay(c) == c.write

\* if internal.IsWriteCommand(command, subCommand) && !replay
Enqueues(c) == c.write /\ ~c.replay

HandlerDone(d) ==
  /\ pc[d] = "hc_after"
  /\ ret[d].err = ErrNone
  /\ aofPending' = IF Enqueues(cur[d]) THEN aofPending \cup {Msg(d)} ELSE aofPending
  /\ stateMutationInProgress' = FALSE
  /\ ret' = [ret EXCEPT ![d].done = TRUE]
  /\ pc' = [pc EXCEPT ![d] = "idle"]
  /\ Leave(d)
  /\ UNCHANGED <<storeVars, envVars, stateCopyInProgress, cfgVars, todo, nCmds,
                 samplerVars, snapVars, raftLog, forwarded, aofLog, storeLock, pending>>

\* One of the `go server.aofEngine.QueueCommand(message)` goroutines runs: the
\* scheduler picks any of those started and not yet run.
QueueCommand ==
  /\ \E m \in aofPending :
       /\ aofPending' = aofPending \ {m}
       /\ aofLog' = Append(aofLog, m)
  /\ UNCHANGED <<storeVars, envVars, flagVars, cfgVars, dispVars, samplerVars, snapVars,
                 raftLog, forwarded, storeLock, pc, pending>>

\* ------------------------------------------------- scheduling cache updates
\* updateKeysInCache's first two checks, made for every key:
\* if server.isInCluster() || (server.isInCluster() && !IsRaftLeader()) { return nil }
\* if server.config.MaxMemory == 0 { return nil }
CacheUpdateSkipped == isInCluster \/ config.maxMemory = 0

\* go func() { updateKeysInCache(ctx, keys) }(): the keys whose update is now
\* scheduled. The role and the limit are fixed configuration, so a goroutine that
\* would return at the first check of every key is not kept.
Schedule(keys) == IF CacheUpdateSkipped THEN pending ELSE pending \cup keys

\* Where a handler goes on when the store operation it called returns: a
\* command that is one store operation returns; SET goes on to SetExpiry when an
\* expiry option was given; SET, EXPIRE, PERSIST and DEL go on to their reply.
AfterSetValues(c) ==
  IF c.op = "set" THEN (IF c.exp # 0 THEN "se_lock" ELSE "set_done") ELSE "hc_after"

AfterSetExpiry(c) ==
  CASE c.op = "set" -> "set_done"
    [] c.op = "expire" -> "exp_done"
    [] c.op = "persist" -> "per_done"
    [] OTHER -> "hc_after"

AfterDeleteKey(c) == IF c.op = "del" THEN "del_next" ELSE "hc_after"

\* INCR calls SetValues twice and GetValues in between: for a missing key it
\* first stores "0", then reads the value and writes the new integer back.
AfterGetValues(d) == IF cur[d].op = "incr" THEN "incr_parse" ELSE "hc_after"

AfterSetValuesOf(d) ==
  IF cur[d].op = "incr" THEN (IF values[d] = <<>> THEN "gv_lock" ELSE "incr_done")
  ELSE AfterSetValues(cur[d])

\* strconv.Itoa / strconv.ParseInt over the integers the model reaches.
Digits == <<"0", "1", "2", "3", "4", "5">>

FormatInt(n) == Digits[n + 1]

IsInt(text) == \E n \in 0..(Len(Digits) - 1) : FormatInt(n) = text

ParseInt(text) == CHOOSE n \in 0..(Len(Digits) - 1) : FormatInt(n) = text

\* The value of the entries map a handler passes to setValues.
SetValuesArg(d) == IF cur[d].op = "incr" THEN FormatInt(hlocal[d].count) ELSE cur[d].val

\* ------------------------------------------------------------ getValues
\* server.storeLock.Lock(); values := make(map...)
GetValuesLock(d) ==
  /\ pc[d] = "gv_lock"
  /\ storeLock = NoThread
  /\ storeLock' = d
  /\ idx' = [idx EXCEPT ![d] = 1]
  /\ values' = [values EXCEPT ![d] = <<>>]
  /\ pc' = [pc EXCEPT ![d] = "gv_loop"]
  /\ UNCHANGED <<storeVars, envVars, flagVars, cfgVars, cur, hlocal, todo, ret, nCmds,
                 samplerVars, snapVars, outVars, pending>>

\* getValues without the expiry test.
GetValueOfStale(key) == IF key \in DOMAIN store THEN store[key].Value ELSE NilValue

\* What getValues yields for one key: nil for an absent or expired entry.
GetValueOf(key) ==
  IF key \notin DOMAIN store THEN NilValue
  ELSE IF Expired(store[key], now) THEN NilValue
  ELSE store[key].Value

\* A lazy deletion that forwards only when forwardCommand is set.
LazyDeleteIfForwarding(key) ==
  IF ~isInCluster
    THEN deleteKey(key) /\ UNCHANGED <<raftLog, forwarded>>
    ELSE IF IsRaftLeader
      THEN raftApplyDeleteKey(key) /\ UNCHANGED <<storeVars, forwarded>>
      ELSE /\ forwarded' =
                IF config.forwardCommand
                  THEN forwarded \cup {[type |-> "delete-key", cmd |-> "", key |-> key]}
                  ELSE forwarded
           /\ UNCHANGED <<storeVars, raftLog>>

\* The lazy deletion of an expired entry, by role.
LazyDelete(key) ==
  IF ~isInCluster
    THEN deleteKey(key) /\ UNCHANGED <<raftLog, forwarded>>
    ELSE IF IsRaftLeader
      THEN raftApplyDeleteKey(key) /\ UNCHANGED <<storeVars, forwarded>>
      ELSE /\ forwarded' =
                forwarded \cup {[type |-> "delete-key", cmd |-> "", key |-> key]}
           /\ UNCHANGED <<storeVars, raftLog>>

\* One iteration of `for _, key := range keys`.
GetValuesKey(d) ==
  /\ pc[d] = "gv_loop"
  /\ idx[d] <= Len(cur[d].keys)
  /\ LET key == cur[d].keys[idx[d]] IN
       /\ values' = [values EXCEPT ![d] = Put(@, key, GetValueOf(key))]
       /\ IF key \in DOMAIN store /\ Expired(store[key], now)
            THEN LazyDelete(key)
            ELSE UNCHANGED <<storeVars, raftLog, forwarded>>
  /\ idx' = [idx EXCEPT ![d] = @ + 1]
  /\ UNCHANGED <<envVars, flagVars, cfgVars, cur, hlocal, todo, ret, nCmds, samplerVars,
                 snapVars, aofPending, aofLog, storeLock, pc, pending>>

\* go updateKeysInCache(ctx, keys); return values (the deferred Unlock runs)
GetValuesReturn(d) ==
  /\ pc[d] = "gv_loop"
  /\ idx[d] > Len(cur[d].keys)
  /\ pending' = Schedule(Range(cur[d].keys))
  /\ storeLock' = NoThread
  /\ ret' = [ret EXCEPT ![d].res = values[d]]
  /\ pc' = [pc EXCEPT ![d] = AfterGetValues(d)]
  /\ UNCHANGED <<storeVars, envVars, flagVars, cfgVars, cur, idx, hlocal, todo, values, nCmds,
                 samplerVars, snapVars, outVars>>

\* ------------------------------------------------------------ setValues
SetValuesLock(d) ==
  /\ pc[d] = "sv_lock"
  /\ storeLock = NoThread
  /\ storeLock' = d
  /\ pc' = [pc EXCEPT ![d] = "sv_check"]
  /\ UNCHANGED <<storeVars, envVars, flagVars, cfgVars, dispVars, samplerVars,
                 snapVars, outVars, pending>>

\* The max-memory test without the policy.
SetValuesRefusesAnyPolicy == IsMaxMemoryExceeded

\* if IsMaxMemoryExceeded(MaxMemory) && EvictionPolicy == NoEviction
SetValuesRefuses == IsMaxMemoryExceeded /\ config.policy = "noeviction"

SetValuesCheck(d) ==
  /\ pc[d] = "sv_check"
  /\ IF SetValuesRefuses
       THEN /\ ret' = [ret EXCEPT ![d].err = ErrMaxMemory]
            /\ storeLock' = NoThread
            /\ pc' = [pc EXCEPT ![d] = "hc_after"]
            /\ UNCHANGED todo
       ELSE /\ todo' = [todo EXCEPT ![d] = Range(cur[d].keys)]
            /\ pc' = [pc EXCEPT ![d] = "sv_loop"]
            /\ UNCHANGED <<ret, storeLock>>
  /\ UNCHANGED <<storeVars, envVars, flagVars, cfgVars, cur, idx, hlocal, values, nCmds,
                 samplerVars, snapVars, outVars, pending>>

\* setValues storing a fresh entry whatever the key held.
SetValuesEntryFresh(key, value) == KeyData(value, ZeroTime)

\* The entry setValues stores for key: the new value, the expiry the entry had.
SetValuesEntry(key, value) ==
  KeyData(value, IF key \in DOMAIN store THEN store[key].ExpireAt ELSE ZeroTime)

\* One iteration of `for key, value := range entries` (map order: any key next).
SetValuesKey(d) ==
  /\ pc[d] = "sv_loop"
  /\ \E key \in todo[d] :
       /\ store' = Put(store, key, SetValuesEntry(key, SetValuesArg(d)))
       /\ todo' = [todo EXCEPT ![d] = @ \ {key}]
  /\ UNCHANGED <<keysWithExpiry, cache, envVars, flagVars, cfgVars, cur, idx, hlocal, values,
                 ret, nCmds, samplerVars, snapVars, outVars, storeLock, pc, pending>>

\* go func() { for key := range entries { updateKeysInCache(key) } }(); return nil
SetValuesReturn(d) ==
  /\ pc[d] = "sv_loop"
  /\ todo[d] = {}
  /\ pending' = Schedule(Range(cur[d].keys))
  /\ storeLock' = NoThread
  /\ pc' = [pc EXCEPT ![d] = AfterSetValuesOf(d)]
  /\ UNCHANGED <<storeVars, envVars, flagVars, cfgVars, dispVars, samplerVars,
                 snapVars, outVars>>

\* ------------------------------------------------------------ setExpiry
SetExpiryLock(d) ==
  /\ pc[d] = "se_lock"
  /\ storeLock = NoThread
  /\ storeLock' = d
  /\ pc' = [pc EXCEPT ![d] = "se_body"]
  /\ UNCHANGED <<storeVars, envVars, flagVars, cfgVars, dispVars, samplerVars,
                 snapVars, outVars, pending>>

\* A setExpiry that writes the entry without the stored value.
ValueAtNil(key) == NilValue

\* server.store[key].Value of a missing key is the zero KeyData's nil Value.
ValueAt(key) == IF key \in DOMAIN store THEN store[key].Value ELSE NilValue

\* A setExpiry that leaves the index as it is.
IndexKeeps(keys, key) == keys

\* The append without the slices.Contains test.
IndexAppend(keys, key) == Append(keys, key)

\* if !slices.Contains(keys, key) { keys = append(keys, key) }
IndexAdd(keys, key) == IF Contains(keys, key) THEN keys ELSE Append(keys, key)

\* The expiry an EXPIRE-family handler passes: now + n, or no expiry (PERSIST).
ExpireAtOf(c) == IF c.exp = 0 THEN ZeroTime ELSE now + c.exp

\* The expireAt argument of the call: a handler passes the expiry it computed.
SetExpiryArg(d) ==
  IF cur[d].op = "setExpiry" THEN ExpireAtOf(cur[d]) ELSE hlocal[d].expireAt

\* The body of setExpiry(ctx, key, expireAt, touch) and its return.
SetExpiryBody(d) ==
  /\ pc[d] = "se_body"
  /\ LET key == cur[d].keys[1] IN
       /\ store' = Put(store, key, KeyData(ValueAt(key), SetExpiryArg(d)))
       /\ keysWithExpiry' = IndexAdd(keysWithExpiry, key)
       /\ pending' = IF cur[d].touch THEN Schedule({key}) ELSE pending
  /\ storeLock' = NoThread
  /\ pc' = [pc EXCEPT ![d] = AfterSetExpiry(cur[d])]
  /\ UNCHANGED <<cache, envVars, flagVars, cfgVars, dispVars, samplerVars, snapVars,
                 outVars>>

\* ------------------------------------------- HandlerFuncParams.DeleteKey
DeleteKeyLock(d) ==
  /\ pc[d] = "dk_lock"
  /\ storeLock = NoThread
  /\ storeLock' = d
  /\ pc' = [pc EXCEPT ![d] = "dk_body"]
  /\ UNCHANGED <<storeVars, envVars, flagVars, cfgVars, dispVars, samplerVars,
                 snapVars, outVars, pending>>

\* (A handler that deletes several keys calls DeleteKey for keys[idx].)
DeleteKeyBody(d) ==
  /\ pc[d] = "dk_body"
  /\ deleteKey(cur[d].keys[idx[d]])
  /\ storeLock' = NoThread
  /\ pc' = [pc EXCEPT ![d] = AfterDeleteKey(cur[d])]
  /\ UNCHANGED <<envVars, flagVars, cfgVars, dispVars, samplerVars, snapVars,
                 outVars, pending>>

\* ------------------------------------------- store reads of the handlers
\* A keysExist that reports every key missing.
keysExistNone(keys) == [k \in Range(keys) |-> FALSE]

\* keysExist(keys): exists[key] = ok of `_, ok := server.store[key]`.
keysExist(keys) == [k \in Range(keys) |-> k \in DOMAIN store]

\* A getExpiry that returns time.Time{} for every key.
getExpiryZero(key) == ZeroTime

\* getExpiry(key): the entry's ExpireAt, time.Time{} for a missing key.
getExpiry(key) == IF key \in DOMAIN store THEN store[key].ExpireAt ELSE ZeroTime

\* getKeys(): keys := make([]string, len(server.store)) is len(server.store) empty
\* strings; `for key := range server.store` then appends the keys, in any order.
getKeys ==
  LET n == Cardinality(DOMAIN store)
      made == [i \in 1..n |-> ""]
      orders == {f \in [1..n -> DOMAIN store] : \A i, j \in 1..n : f[i] = f[j] => i = j}
  IN {made \o f : f \in orders}

\* RLock() succeeds when no goroutine holds the write lock; the read section
\* that follows is one step.
ReadLocked == storeLock = NoThread

\* ------------------------------------------------------ generic handlers
\* An integer reply.
IntReply(n) == [integer |-> n]

\* One step of a handler that calls no writing store operation: on to `to` with
\* the call's result r and the handler's locals h.
Step(d, from, to, r, h) ==
  /\ pc[d] = from
  /\ pc' = [pc EXCEPT ![d] = to]
  /\ ret' = [ret EXCEPT ![d] = r]
  /\ hlocal' = [hlocal EXCEPT ![d] = h]
  /\ UNCHANGED <<storeVars, envVars, flagVars, cfgVars, cur, idx, todo, values, nCmds,
                 samplerVars, snapVars, outVars, storeLock, pending>>

\* SET key value [NX|XX] [PX n]: the options are parsed (NX with XX, and two expiry
\* options, are rejected) and the expiry computed from the clock.
SetParse(d) ==
  LET c == cur[d]
      bad == c.flag \in {"NXXX", "EXPX"}
  IN /\ pc[d] = "set_parse"
     /\ Step(d, "set_parse",
             IF bad THEN "hc_after"
             ELSE IF c.flag \in {"NX", "XX"} THEN "set_exists" ELSE "sv_lock",
             IF bad THEN [ret[d] EXCEPT !.err = ErrHandler] ELSE ret[d],
             IF bad \/ c.exp = 0 THEN hlocal[d]
             ELSE [hlocal[d] EXCEPT !.expireAt = now + c.exp])

\* SET with NX fails on a key that exists, with XX on one that does not.
SetExists(d) ==
  LET c == cur[d]
      exists == keysExist(c.keys)[c.keys[1]]
      e == IF c.flag = "NX" /\ exists THEN "key already exists"
           ELSE IF c.flag = "XX" /\ ~exists THEN "key does not exist" ELSE ErrNone
  IN /\ ReadLocked
     /\ Step(d, "set_exists", IF e = ErrNone THEN "sv_lock" ELSE "hc_after",
             [ret[d] EXCEPT !.err = e], hlocal[d])

SetReply(d) ==
  /\ pc[d] = "set_done"
  /\ Step(d, "set_done", "hc_after", [ret[d] EXCEPT !.res = Reply(OkResponse)], hlocal[d])

\* TTL key / EXPIRETIME key: -2 for a key KeysExist reports missing.
TtlExists(d) ==
  LET c == cur[d]
      exists == keysExist(c.keys)[c.keys[1]]
  IN /\ ReadLocked
     /\ Step(d, "ttl_exists", IF exists THEN "ttl_expiry" ELSE "hc_after",
             IF exists THEN ret[d] ELSE [ret[d] EXCEPT !.res = IntReply(-2)], hlocal[d])

\* -1 without an expiry, else the time remaining (TTL) or the expiry (EXPIRETIME).
TtlExpiry(d) ==
  LET c == cur[d]
      e == getExpiry(c.keys[1])
      n == IF e = ZeroTime THEN -1 ELSE IF c.name = "EXPIRETIME" THEN e ELSE e - now
  IN /\ ReadLocked
     /\ Step(d, "ttl_expiry", "hc_after", [ret[d] EXCEPT !.res = IntReply(n)], hlocal[d])

\* EXPIRE key n [flag] / EXPIREAT key t [flag]: 0 for a key KeysExist reports
\* missing, else the new expiry is n from now (EXPIRE) or t (EXPIREAT).
ExpireExists(d) ==
  LET c == cur[d]
      exists == keysExist(c.keys)[c.keys[1]]
      new == IF c.name = "EXPIREAT" THEN c.exp ELSE now + c.exp
  IN /\ ReadLocked
     /\ Step(d, "exp_exists", IF exists THEN "exp_expiry" ELSE "hc_after",
             IF exists THEN ret[d] ELSE [ret[d] EXCEPT !.res = IntReply(0)],
             IF exists THEN [hlocal[d] EXCEPT !.expireAt = new] ELSE hlocal[d])

\* Whether the flag lets the new expiry replace the current one.
ExpireApplies(flag, current, new) ==
  CASE flag = "NX" -> current = ZeroTime
    [] flag = "XX" -> current # ZeroTime
    [] flag = "GT" -> current # ZeroTime /\ new > current
    [] flag = "LT" -> current = ZeroTime \/ new < current
    [] OTHER -> TRUE

\* The flag is tested against GetExpiry(key): SetExpiry is called, or the reply is 0.
ExpireDecide(d) ==
  LET c == cur[d]
      applies == ExpireApplies(c.flag, getExpiry(c.keys[1]), hlocal[d].expireAt)
  IN /\ ReadLocked
     /\ Step(d, "exp_expiry", IF applies THEN "se_lock" ELSE "hc_after",
             IF applies THEN ret[d] ELSE [ret[d] EXCEPT !.res = IntReply(0)], hlocal[d])

ExpireReply(d) ==
  /\ pc[d] = "exp_done"
  /\ Step(d, "exp_done", "hc_after", [ret[d] EXCEPT !.res = IntReply(1)], hlocal[d])

\* PERSIST key: 0 for a key KeysExist reports missing.
PersistExists(d) ==
  LET c == cur[d]
      exists == keysExist(c.keys)[c.keys[1]]
  IN /\ ReadLocked
     /\ Step(d, "per_exists", IF exists THEN "per_expiry" ELSE "hc_after",
             IF exists THEN ret[d] ELSE [ret[d] EXCEPT !.res = IntReply(0)], hlocal[d])

\* 0 for a key without an expiry, else SetExpiry(key, time.Time{}, false).
PersistExpiry(d) ==
  LET volatile == getExpiry(cur[d].keys[1]) # ZeroTime
  IN /\ ReadLocked
     /\ Step(d, "per_expiry", IF volatile THEN "se_lock" ELSE "hc_after",
             IF volatile THEN ret[d] ELSE [ret[d] EXCEPT !.res = IntReply(0)],
             [hlocal[d] EXCEPT !.expireAt = ZeroTime])

PersistReply(d) ==
  /\ pc[d] = "per_done"
  /\ Step(d, "per_done", "hc_after", [ret[d] EXCEPT !.res = IntReply(1)], hlocal[d])

\* DEL k1 ... kn: the named keys KeysExist reports present are counted, then
\* DeleteKey is called for each named key.
DelCount(d) ==
  LET c == cur[d]
      n == Cardinality({k \in Range(c.keys) : keysExist(c.keys)[k]})
  IN /\ ReadLocked
     /\ Step(d, "del_count", "dk_lock", ret[d], [hlocal[d] EXCEPT !.count = n])

\* After a DeleteKey: the next key, or the reply with the count.
DelNext(d) ==
  /\ pc[d] = "del_next"
  /\ IF idx[d] < Len(cur[d].keys)
       THEN /\ idx' = [idx EXCEPT ![d] = @ + 1]
            /\ pc' = [pc EXCEPT ![d] = "dk_lock"]
            /\ UNCHANGED ret
       ELSE /\ ret' = [ret EXCEPT ![d].res = IntReply(hlocal[d].count)]
            /\ pc' = [pc EXCEPT ![d] = "hc_after"]
            /\ UNCHANGED idx
  /\ UNCHANGED <<storeVars, envVars, flagVars, cfgVars, cur, hlocal, todo, values, nCmds,
                 samplerVars, snapVars, outVars, storeLock, pending>>

\* EXISTS k1 ... kn: the number of named keys KeysExist reports present.
Exists(d) ==
  LET c == cur[d]
      n == Cardinality({i \in 1..Len(c.keys) : keysExist(c.keys)[c.keys[i]]})
  IN /\ ReadLocked
     /\ Step(d, "ex_exists", "hc_after", [ret[d] EXCEPT !.res = IntReply(n)], hlocal[d])

\* A handler calling GetKeys() and replying with what it returned. getKeys takes
\* the write lock for its whole body.
GetKeys(d) ==
  /\ storeLock = NoThread
  /\ \E keys \in getKeys :
       Step(d, "gk_call", "hc_after", [ret[d] EXCEPT !.res = [keys |-> keys]], hlocal[d])

\* INCR key: KeysExist, and SetValues of "0" for a missing key.
IncrExists(d) ==
  LET key == cur[d].keys[1]
  IN /\ ReadLocked
     /\ Step(d, "incr_exists", IF keysExist(cur[d].keys)[key] THEN "gv_lock" ELSE "sv_lock",
             ret[d], [hlocal[d] EXCEPT !.count = 0])

\* The value GetValues returned is parsed and incremented; SetValues writes it.
IncrParse(d) ==
  LET text == values[d][cur[d].keys[1]]
  IN /\ pc[d] = "incr_parse"
     /\ IF IsInt(text) /\ ParseInt(text) + 1 < Len(Digits)
          THEN Step(d, "incr_parse", "sv_lock", ret[d],
                    [hlocal[d] EXCEPT !.count = ParseInt(text) + 1])
          ELSE Step(d, "incr_parse", "hc_after",
                    [ret[d] EXCEPT !.err = "value is not an integer or out of range"],
                    hlocal[d])

\* The reply is the integer written.
IncrReply(d) ==
  /\ pc[d] = "incr_done"
  /\ Step(d, "incr_done", "hc_after", [ret[d] EXCEPT !.res = IntReply(hlocal[d].count)],
          hlocal[d])

Incr(d) == IncrExists(d) \/ IncrParse(d) \/ IncrReply(d)

\* -------------------------------------------------------------- getState
GetStateCall ==
  /\ pc[Snap] = "s_idle"
  /\ nSnaps < MaxSnaps
  /\ pc' = [pc EXCEPT ![Snap] = "s_loadc"]
  /\ UNCHANGED <<storeVars, envVars, flagVars, cfgVars, dispVars, samplerVars,
                 snapVars, outVars, storeLock, pending>>

\* !server.stateCopyInProgress.Load() && ... : the first load
GetStateLoadCopy ==
  /\ pc[Snap] = "s_loadc"
  /\ ~stateCopyInProgress
  /\ pc' = [pc EXCEPT ![Snap] = "s_loadm"]
  /\ UNCHANGED <<storeVars, envVars, flagVars, cfgVars, dispVars, samplerVars,
                 snapVars, outVars, storeLock, pending>>

\* ... && !server.stateMutationInProgress.Load() : the second load
GetStateLoadMutation ==
  /\ pc[Snap] = "s_loadm"
  /\ pc' = [pc EXCEPT ![Snap] = IF stateMutationInProgress THEN "s_loadc" ELSE "s_set"]
  /\ UNCHANGED <<storeVars, envVars, flagVars, cfgVars, dispVars, samplerVars,
                 snapVars, outVars, storeLock, pending>>

\* server.stateCopyInProgress.Store(true); data := make(map...)
GetStateSetCopy ==
  /\ pc[Snap] = "s_set"
  /\ stateCopyInProgress' = TRUE
  /\ snapshot' = <<>>
  /\ pc' = [pc EXCEPT ![Snap] = "s_copy"]
  /\ UNCHANGED <<storeVars, envVars, stateMutationInProgress, cfgVars, dispVars,
                 samplerVars, nSnaps, outVars, storeLock, pending>>

\* One iteration of `for k, v := range server.store { data[k] = v }`.
GetStateCopyKey ==
  /\ pc[Snap] = "s_copy"
  /\ \E k \in DOMAIN store \ DOMAIN snapshot :
       snapshot' = Put(snapshot, k, store[k])
  /\ UNCHANGED <<storeVars, envVars, flagVars, cfgVars, dispVars, samplerVars,
                 nSnaps, outVars, storeLock, pc, pending>>

\* server.stateCopyInProgress.Store(false); return data
GetStateReturn ==
  /\ pc[Snap] = "s_copy"
  /\ DOMAIN store \ DOMAIN snapshot = {}
  /\ stateCopyInProgress' = FALSE
  /\ nSnaps' = nSnaps + 1
  /\ pc' = [pc EXCEPT ![Snap] = "s_idle"]
  /\ UNCHANGED <<storeVars, envVars, stateMutationInProgress, cfgVars, dispVars,
                 samplerVars, snapshot, outVars, storeLock, pending>>

\* ---------------------------------------------------- updateKeysInCache
\* The cache after updateKeysInCache's switch for one key: Update(key) under an
\* allkeys policy, Update(key) only for an entry with an expiry under a volatile one.
CacheAfterUpdate(key) ==
  CASE config.policy \in {"allkeys-lfu", "allkeys-lru"} -> CacheUpdate(cache, key)
    [] config.policy \in {"volatile-lfu", "volatile-lru"} ->
         IF key \in DOMAIN store /\ store[key].ExpireAt # ZeroTime
           THEN CacheUpdate(cache, key) ELSE cache
    [] OTHER -> cache

\* One scheduled cache update starts: the cache switch for its key, then on to
\* adjustMemoryUsage.
UpdateKeysInCache ==
  /\ pc[Bg] = "b_idle"
  /\ \E key \in pending :
       /\ pending' = pending \ {key}
       /\ IF CacheUpdateSkipped
            THEN UNCHANGED <<cache, pc>>
            ELSE /\ cache' = CacheAfterUpdate(key)
                 /\ pc' = [pc EXCEPT ![Bg] = "g_check"]
  /\ UNCHANGED <<store, keysWithExpiry, envVars, flagVars, cfgVars, dispVars,
                 samplerVars, snapVars, outVars, storeLock>>

\* ----------------------------------------------------- adjustMemoryUsage
\* memStats.HeapInuse < server.config.MaxMemory
UnderLimit(heap) == heap < config.maxMemory

\* runtime.GC(); runtime.ReadMemStats(&memStats): a collection never grows the heap.
AfterGC(heap) == 0..heap

GovernorEntry ==
  CASE config.policy \in LFUPolicies \cup LRUPolicies -> "g_cache"
    [] config.policy = "allkeys-random" -> "g_akr"
    [] config.policy = "volatile-random" -> "g_vr"
    [] OTHER -> "g_default"

\* The two checks before any eviction: heap under the limit, or under it after a GC.
GovernorCheck ==
  /\ pc[Bg] = "g_check"
  /\ IF config.maxMemory = 0 \/ UnderLimit(heapInUse)
       THEN /\ pc' = [pc EXCEPT ![Bg] = "b_idle"]
            /\ UNCHANGED heapInUse
       ELSE \E h \in AfterGC(heapInUse) :
              /\ heapInUse' = h
              /\ pc' = [pc EXCEPT ![Bg] = IF UnderLimit(h) THEN "b_idle" ELSE "g_lock"]
  /\ UNCHANGED <<storeVars, now, flagVars, cfgVars, dispVars, samplerVars, snapVars,
                 outVars, storeLock, pending>>

\* server.storeLock.Lock(); defer Unlock(); switch on the policy
GovernorLock ==
  /\ pc[Bg] = "g_lock"
  /\ storeLock = NoThread
  /\ storeLock' = Bg
  /\ pc' = [pc EXCEPT ![Bg] = GovernorEntry]
  /\ UNCHANGED <<storeVars, envVars, flagVars, cfgVars, dispVars, samplerVars,
                 snapVars, outVars, pending>>

\* default: return nil
GovernorDefault ==
  /\ pc[Bg] = "g_default"
  /\ storeLock' = NoThread
  /\ pc' = [pc EXCEPT ![Bg] = "b_idle"]
  /\ UNCHANGED <<storeVars, envVars, flagVars, cfgVars, dispVars, samplerVars,
                 snapVars, outVars, pending>>

\* The governor's delete of an evicted key, by role. (The popped key leaves the
\* cache in either role.)
GovernorDelete(key) ==
  IF ~isInCluster
    THEN deleteKey(key) /\ UNCHANGED raftLog
    ELSE /\ cache' = CacheDelete(cache, key)
         /\ UNCHANGED <<store, keysWithExpiry>>
         /\ IF IsRaftLeader THEN raftApplyDeleteKey(key) ELSE UNCHANGED raftLog

\* The GC and re-measure after an eviction: return when under the limit.
GovernorRemeasure(loop) ==
  \E h \in AfterGC(heapInUse) :
    /\ heapInUse' = h
    /\ IF UnderLimit(h)
         THEN storeLock' = NoThread /\ pc' = [pc EXCEPT ![Bg] = "b_idle"]
         ELSE UNCHANGED storeLock /\ pc' = [pc EXCEPT ![Bg] = loop]

\* LFU / LRU: one iteration of the loop popping the cache's root (the set
\* keeps no access counts: any key it holds may be the root).
GovernorEvictCache ==
  /\ pc[Bg] = "g_cache"
  /\ IF cache = {}
       THEN /\ storeLock' = NoThread
            /\ pc' = [pc EXCEPT ![Bg] = "b_idle"]
            /\ UNCHANGED <<storeVars, heapInUse, raftLog>>
       ELSE \E key \in cache :
              /\ GovernorDelete(key)
              /\ GovernorRemeasure("g_cache")
  /\ UNCHANGED <<now, flagVars, cfgVars, dispVars, samplerVars, snapVars, forwarded,
                 aofPending, aofLog, pending>>

\* volatile-random: idx := rand.Intn(len(keys)); key := keys[idx]. rand.Intn
\* panics on 0, and a panic in a goroutine ends the process: every goroutine
\* stops where it is.
GovernorEvictVolatile ==
  /\ pc[Bg] = "g_vr"
  /\ IF keysWithExpiry = <<>>
       THEN /\ pc' = [t \in DOMAIN pc |-> "panic"]
            /\ UNCHANGED <<storeVars, heapInUse, raftLog, storeLock>>
       ELSE \E i \in 1..Len(keysWithExpiry) :
              /\ IF ~isInCluster
                   THEN deleteKey(keysWithExpiry[i]) /\ UNCHANGED raftLog
                   ELSE /\ UNCHANGED storeVars
                        /\ IF IsRaftLeader THEN raftApplyDeleteKey(keysWithExpiry[i])
                                           ELSE UNCHANGED raftLog
              /\ GovernorRemeasure("g_vr")
  /\ UNCHANGED <<now, flagVars, cfgVars, dispVars, samplerVars, snapVars, forwarded,
                 aofPending, aofLog, pending>>

\* allkeys-random: the loop starts with a second server.storeLock.Lock() by the
\* goroutine that already holds the lock; a Go RWMutex is not reentrant, so the
\* goroutine waits at "g_akr" for a release that cannot come.
GovernorRelock ==
  /\ pc[Bg] = "g_akr"
  /\ storeLock = NoThread
  /\ storeLock' = Bg
  /\ UNCHANGED <<storeVars, envVars, flagVars, cfgVars, dispVars, samplerVars,
                 snapVars, outVars, pc, pending>>

\* ------------------------------------------------ evictKeysWithExpiredTTL
Min(a, b) == IF a < b THEN a ELSE b

\* sampleSize: the configured sample, or the index's length when that is smaller.
SampleSize == Min(config.evictionSample, Len(keysWithExpiry))

\* A sampling loop that takes whatever key rand.Intn picks, without the retry.
DrawsAny == [1..SampleSize -> Range(keysWithExpiry)]

\* keys := make([]string, sampleSize); for each i, retry a random key of the
\* index until !slices.Contains(keys, key): the key differs from the ones
\* already drawn and from the "" that fills the slots not yet assigned.
Draws ==
  {s \in [1..SampleSize -> Range(keysWithExpiry)] :
     \A i \in 1..SampleSize : s[i] # "" /\ \A j \in 1..(i - 1) : s[j] # s[i]}

\* The samples the retry loop can draw (the deletes run in any order).
Samples == {Range(s) : s \in Draws}

\* The sampler's role gate: a no-op on a non-leader cluster member.
SamplerSkip ==
  /\ pc[Sampler] = "t_idle"
  /\ nSweeps < MaxSweeps
  /\ isInCluster /\ ~IsRaftLeader
  /\ nSweeps' = nSweeps + 1
  /\ UNCHANGED <<storeVars, envVars, flagVars, cfgVars, dispVars, sample, snapVars,
                 outVars, storeLock, pc, pending>>

\* The sampling under the index's read lock; entered by the ticker ("t_idle") or
\* by the recursive call ("t_again"), which still holds the store lock.
SamplerSample ==
  /\ \/ pc[Sampler] = "t_idle" /\ nSweeps < MaxSweeps /\ ~(isInCluster /\ ~IsRaftLeader)
     \/ pc[Sampler] = "t_again"
  /\ \E S \in Samples :
       /\ todo' = [todo EXCEPT ![Sampler] = S]
       /\ sample' = [sampleSize |-> SampleSize, deletedCount |-> 0]
  /\ pc' = [pc EXCEPT ![Sampler] = "t_lock"]
  /\ UNCHANGED <<storeVars, envVars, flagVars, cfgVars, cur, idx, hlocal, values, ret, nCmds,
                 nSweeps, snapVars, outVars, storeLock, pending>>

\* server.storeLock.Lock(); defer server.storeLock.Unlock()
SamplerLock ==
  /\ pc[Sampler] = "t_lock"
  /\ storeLock = NoThread
  /\ storeLock' = Sampler
  /\ pc' = [pc EXCEPT ![Sampler] = "t_loop"]
  /\ UNCHANGED <<storeVars, envVars, flagVars, cfgVars, dispVars, samplerVars,
                 snapVars, outVars, pending>>

\* The sampler's delete of a sampled key, by role.
SamplerDeleteKey(k) ==
  IF ~isInCluster
    THEN deleteKey(k) /\ UNCHANGED raftLog
    ELSE raftApplyDeleteKey(k) /\ UNCHANGED storeVars

\* One iteration of `for _, k := range keys`: deletedCount += 1 and the delete.
SamplerDelete ==
  /\ pc[Sampler] = "t_loop"
  /\ \E k \in todo[Sampler] :
       /\ SamplerDeleteKey(k)
       /\ todo' = [todo EXCEPT ![Sampler] = @ \ {k}]
  /\ sample' = [sample EXCEPT !.deletedCount = @ + 1]
  /\ UNCHANGED <<envVars, flagVars, cfgVars, cur, idx, hlocal, values, ret, nCmds, nSweeps,
                 snapVars, forwarded, aofPending, aofLog, storeLock, pc, pending>>

thresholdPercentage == 20

\* A comparison of the count itself with the threshold.
SamplesAgainCount == sample.deletedCount >= thresholdPercentage

\* (deletedCount/sampleSize)*100 >= thresholdPercentage, in Go's integer division
SamplesAgain ==
  (sample.deletedCount \div sample.sampleSize) * 100 >= thresholdPercentage

\* After the loop: return when sampleSize is 0 or the ratio is under the
\* threshold (the deferred Unlock runs), else call evictKeysWithExpiredTTL again
\* before returning, the store lock still held.
SamplerFinish ==
  /\ pc[Sampler] = "t_loop"
  /\ todo[Sampler] = {}
  /\ IF sample.sampleSize = 0 \/ ~SamplesAgain
       THEN /\ storeLock' = NoThread
            /\ nSweeps' = nSweeps + 1
            /\ pc' = [pc EXCEPT ![Sampler] = "t_idle"]
       ELSE /\ pc' = [pc EXCEPT ![Sampler] = "t_again"]
            /\ UNCHANGED <<storeLock, nSweeps>>
  /\ UNCHANGED <<storeVars, envVars, flagVars, cfgVars, dispVars, sample, snapVars,
                 outVars, pending>>

\* ------------------------------------------------------------ environment
\* The clock advances, up to a limit.
TickUntil(limit) ==
  /\ now < limit
  /\ now' = now + 1
  /\ UNCHANGED <<storeVars, heapInUse, flagVars, cfgVars, dispVars, samplerVars,
                 snapVars, outVars, storeLock, pc, pending>>

Tick == TickUntil(MaxTime)

\* The process allocates: heap-inuse reaches the configured limit.
HeapGrows ==
  /\ config.maxMemory # 0
  /\ heapInUse < config.maxMemory
  /\ heapInUse' = config.maxMemory
  /\ UNCHANGED <<storeVars, now, flagVars, cfgVars, dispVars, samplerVars, snapVars,
                 outVars, storeLock, pc, pending>>

\* ------------------------------------------------------- specifications
Threads == Dispatchers \cup {Snap, Sampler, Bg}

IdlePc(t) ==
  CASE t = Snap -> "s_idle"
    [] t = Sampler -> "t_idle"
    [] t = Bg -> "b_idle"
    [] OTHER -> "idle"

Config(mode, fwd, policy, maxMemory, evictionSample) ==
  [mode |-> mode, forwardCommand |-> fwd, policy |-> policy, maxMemory |-> maxMemory,
   evictionSample |-> evictionSample, acl |-> FALSE]

\* The configuration with an ACL module present (server.acl != nil).
WithACL(cfg) == [cfg EXCEPT !.acl = TRUE]

Modes == {"standalone", "leader", "follower"}

\* The state after NewEchoVault: nothing stored, no goroutine inside a call.
InitServer ==
  /\ store = <<>>
  /\ keysWithExpiry = <<>>
  /\ cache = {}
  /\ now = 1
  /\ heapInUse = 0
  /\ storeLock = NoThread
  /\ stateCopyInProgress = FALSE
  /\ stateMutationInProgress = FALSE
  /\ pc = [t \in Threads |-> IdlePc(t)]
  /\ cur = [d \in Dispatchers |-> NoCmd]
  /\ idx = [d \in Dispatchers |-> 1]
  /\ hlocal = [d \in Dispatchers |-> NoLocal]
  /\ todo = [t \in Dispatchers \cup {Sampler} |-> {}]
  /\ values = [d \in Dispatchers |-> <<>>]
  /\ ret = [d \in Dispatchers |-> NoRet]
  /\ nCmds = [d \in Dispatchers |-> 0]
  /\ pending = {}
  /\ held = [t \in Threads |-> {}]
  /\ prog = [t \in Threads |-> <<>>]
  /\ sample = [sampleSize |-> 0, deletedCount |-> 0]
  /\ nSweeps = 0
  /\ snapshot = <<>>
  /\ nSnaps = 0
  /\ raftLog = {}
  /\ forwarded = {}
  /\ aofPending = {}
  /\ aofLog = <<>>

HandleCommand(d) ==
  \/ Begin(d)
  \/ WaitCopy(d)
  \/ SetMutation(d)
  \/ RouteLocal(d)
  \/ RouteLeader(d)
  \/ RouteForward(d)
  \/ RouteNotLeader(d)
  \/ HandlerInvalid(d)
  \/ HandlerError(d)
  \/ HandlerDone(d)

GetValues(d) == GetValuesLock(d) \/ GetValuesKey(d) \/ GetValuesReturn(d)

SetValues(d) ==
  SetValuesLock(d) \/ SetValuesCheck(d) \/ SetValuesKey(d) \/ SetValuesReturn(d)

SetExpiry(d) == SetExpiryLock(d) \/ SetExpiryBody(d)

DeleteKey(d) == DeleteKeyLock(d) \/ DeleteKeyBody(d)

GetState ==
  \/ GetStateCall
  \/ GetStateLoadCopy
  \/ GetStateLoadMutation
  \/ GetStateSetCopy
  \/ GetStateCopyKey
  \/ GetStateReturn

\* --- the dispatcher and the snapshot barrier: two connections sending MSET
\* (both keys, one value per command), GET and a rejected SET, in every role,
\* beside one getState.
BarrierCmds ==
  {Cmd("MSET", TRUE, TRUE, "setValues", <<"k1", "k2">>, v, 0, FALSE) : v \in Values}
    \cup {Cmd("GET", FALSE, FALSE, "getValues", <<"k1">>, NilValue, 0, FALSE),
          Cmd("SET", TRUE, TRUE, "invalid", <<"k1">>, "a", 0, FALSE)}

InitBarrier ==
  /\ InitServer
  /\ cmds = BarrierCmds
  /\ config \in {Config(m, f, "noeviction", 0, 1) : m \in Modes, f \in BOOLEAN}

NextBarrier ==
  \/ \E d \in Dispatchers : HandleCommand(d) \/ GetValues(d) \/ SetValues(d)
  \/ GetState

SpecBarrier == InitBarrier /\ [][NextBarrier]_vars

\* Each connection's goroutine and the snapshot goroutine, spinning or not, are
\* weakly fair.
FairSpecBarrier ==
  /\ SpecBarrier
  /\ \A d \in Dispatchers : WF_vars(HandleCommand(d) \/ GetValues(d) \/ SetValues(d))
  /\ WF_vars(GetState)

\* --- the keyspace engine without a memory limit: a connection sending the
\* generic commands beside the TTL sampler and the clock, in every role. With
\* MaxMemory = 0 every cache update returns at once, so none is scheduled.
StoreCmds ==
  {Cmd("GET", FALSE, FALSE, "getValues", <<"k1">>, NilValue, 0, FALSE),
   Cmd("MGET", FALSE, FALSE, "getValues", <<"k1", "k2">>, NilValue, 0, FALSE),
   Cmd("GET", FALSE, FALSE, "invalid", <<>>, NilValue, 0, FALSE),
   Cmd("SET", TRUE, TRUE, "setValues", <<"k1">>, "b", 0, FALSE),
   Cmd("EXPIRE", TRUE, TRUE, "setExpiry", <<"k1">>, NilValue, 1, TRUE),
   Cmd("EXPIRE", TRUE, TRUE, "setExpiry", <<"k2">>, NilValue, 1, TRUE),
   Cmd("PERSIST", TRUE, TRUE, "setExpiry", <<"k1">>, NilValue, 0, FALSE),
   Cmd("DEL", TRUE, TRUE, "deleteKey", <<"k1">>, NilValue, 0, FALSE)}

\* Keyspaces earlier commands (or, on a cluster member, replicated commands) have
\* left behind: every entry with an expiry is in the index.
Presets ==
  { [k \in Keys |-> KeyData("a", IF k = "k1" THEN 1 ELSE ZeroTime)],
    [k \in Keys |-> KeyData("a", IF k = "k1" THEN 1 ELSE 2)] }

RECURSIVE SeqOf(_)
SeqOf(S) ==
  IF S = {} THEN <<>> ELSE LET x == CHOOSE y \in S : TRUE IN <<x>> \o SeqOf(S \ {x})

Volatile(st) == {k \in DOMAIN st : st[k].ExpireAt # ZeroTime}

\* The cache the preset's accesses built under the configured policy.
PresetCache(st, cfg) ==
  IF cfg.mode # "standalone" \/ cfg.maxMemory = 0 THEN {}
  ELSE IF cfg.policy \in {"allkeys-lfu", "allkeys-lru"} THEN DOMAIN st
  ELSE IF cfg.policy \in {"volatile-lfu", "volatile-lru"} THEN Volatile(st)
  ELSE {}

StoreConfigs ==
  {Config("standalone", FALSE, "noeviction", 0, n) : n \in {1, 2}}
    \cup {Config("leader", FALSE, "noeviction", 0, 1)}
    \cup {Config("follower", f, "noeviction", 0, 1) : f \in BOOLEAN}

\* The server with a preset keyspace, no goroutine inside a call.
InitWith(commands, configs, presets) ==
  /\ cmds = commands
  /\ config \in configs
  /\ store \in presets
  /\ keysWithExpiry = SeqOf(Volatile(store))
  /\ cache = PresetCache(store, config)
  /\ now = 1
  /\ heapInUse = 0
  /\ storeLock = NoThread
  /\ stateCopyInProgress = FALSE
  /\ stateMutationInProgress = FALSE
  /\ pc = [t \in Threads |-> IdlePc(t)]
  /\ cur = [d \in Dispatchers |-> NoCmd]
  /\ idx = [d \in Dispatchers |-> 1]
  /\ hlocal = [d \in Dispatchers |-> NoLocal]
  /\ todo = [t \in Dispatchers \cup {Sampler} |-> {}]
  /\ values = [d \in Dispatchers |-> <<>>]
  /\ ret = [d \in Dispatchers |-> NoRet]
  /\ nCmds = [d \in Dispatchers |-> 0]
  /\ pending = {}
  /\ held = [t \in Threads |-> {}]
  /\ prog = [t \in Threads |-> <<>>]
  /\ sample = [sampleSize |-> 0, deletedCount |-> 0]
  /\ nSweeps = 0
  /\ snapshot = <<>>
  /\ nSnaps = 0
  /\ raftLog = {}
  /\ forwarded = {}
  /\ aofPending = {}
  /\ aofLog = <<>>

Init == InitWith(StoreCmds, StoreConfigs, Presets)

\* Store operations serialise on the store lock, so one connection sending
\* MaxCmds commands reaches the keyspaces several connections reach.
StoreConns == {"d1"}

StoreOps(d) ==
  \/ HandleCommand(d)
  \/ GetValues(d)
  \/ SetValues(d)
  \/ SetExpiry(d)
  \/ DeleteKey(d)

EvictKeysWithExpiredTTL ==
  SamplerSkip \/ SamplerSample \/ SamplerLock \/ SamplerDelete \/ SamplerFinish

Next ==
  \/ \E d \in StoreConns : StoreOps(d)
  \/ EvictKeysWithExpiredTTL
  \/ Tick

Spec == Init /\ [][Next]_vars

\* The Go scheduler runs every goroutine that can take a step: the connection's
\* goroutine and the sampler are each weakly fair. The clock is not.
FairSpec ==
  /\ Spec
  /\ \A d \in StoreConns : WF_vars(StoreOps(d))
  /\ WF_vars(EvictKeysWithExpiredTTL)

\* --- the keyspace engine under a memory limit: a standalone node under each
\* eviction policy, the connection's commands beside the background cache
\* updates, the memory governor, the heap and the clock.
MemoryCmds ==
  {Cmd("GET", FALSE, FALSE, "getValues", <<"k1">>, NilValue, 0, FALSE),
   Cmd("MGET", FALSE, FALSE, "getValues", <<"k1", "k2">>, NilValue, 0, FALSE),
   Cmd("SET", TRUE, TRUE, "setValues", <<"k1">>, "b", 0, FALSE),
   Cmd("EXPIRE", TRUE, TRUE, "setExpiry", <<"k2">>, NilValue, 1, TRUE),
   Cmd("DEL", TRUE, TRUE, "deleteKey", <<"k1">>, NilValue, 0, FALSE)}

MemoryLimit == 1

MemoryConfigs == {Config("standalone", FALSE, p, MemoryLimit, 1) : p \in Policies}

MemoryPresets == {[k \in Keys |-> KeyData("a", IF k = "k1" THEN 1 ELSE ZeroTime)]}

InitMemory == InitWith(MemoryCmds, MemoryConfigs, MemoryPresets)

Governor ==
  \/ GovernorCheck
  \/ GovernorLock
  \/ GovernorDefault
  \/ GovernorEvictCache
  \/ GovernorEvictVolatile

MemoryOps(d) ==
  \/ Begin(d)
  \/ WaitCopy(d)
  \/ SetMutation(d)
  \/ RouteLocal(d)
  \/ HandlerError(d)
  \/ HandlerDone(d)
  \/ GetValues(d)
  \/ SetValues(d)
  \/ SetExpiry(d)
  \/ DeleteKey(d)

NextMemory ==
  \/ \E d \in StoreConns : MemoryOps(d)
  \/ UpdateKeysInCache
  \/ Governor
  \/ Tick
  \/ HeapGrows

SpecMemory == InitMemory /\ [][NextMemory]_vars

\* The connection's goroutine and the background goroutine are each weakly fair;
\* the clock and the heap are not.
FairSpecMemory ==
  /\ SpecMemory
  /\ \A d \in StoreConns : WF_vars(MemoryOps(d))
  /\ WF_vars(UpdateKeysInCache \/ Governor)

\* --- the dispatcher's gates: one caller making calls with every combination of
\* replay, embedded and conn, with and without an ACL module, in every role.
DispatchCmds ==
  {Request(c.name, c.write, c.sync, c.op, c.keys, c.val, c.exp, c.touch, "", r, e, n) :
     c \in {Cmd("SET", TRUE, TRUE, "setValues", <<"k1">>, "b", 0, FALSE),
            Cmd("SET", TRUE, TRUE, "invalid", <<"k1">>, "a", 0, FALSE),
            Cmd("GET", FALSE, FALSE, "getValues", <<"k1">>, NilValue, 0, FALSE)},
     r \in BOOLEAN, e \in BOOLEAN, n \in BOOLEAN}

DispatchConfigs ==
  LET plain == {Config(m, f, "noeviction", 0, 1) : m \in Modes, f \in BOOLEAN}
  IN plain \cup {WithACL(cfg) : cfg \in plain}

DispatchPresets == {[k \in Keys |-> KeyData("a", ZeroTime)]}

InitDispatch == InitWith(DispatchCmds, DispatchConfigs, DispatchPresets)

NextDispatch ==
  \/ \E d \in StoreConns :
       HandleCommand(d) \/ Authorize(d) \/ GetValues(d) \/ SetValues(d)
  \/ QueueCommand

SpecDispatch == InitDispatch /\ [][NextDispatch]_vars

\* --- the generic command handlers: a standalone node without a memory limit,
\* one connection sending SET, GET, EXISTS, TTL, EXPIRETIME, EXPIRE, EXPIREAT,
\* PERSIST, DEL and KEYS while the clock advances. No sampler runs, so a key
\* leaves the store only through a command.
MaxClock == 3

Generic(name, write, op, keys, val, exp, flag) ==
  Request(name, write, write, op, keys, val, exp, name \in {"EXPIRE", "EXPIREAT"}, flag,
          FALSE, FALSE, TRUE)

GenericCmds ==
  {Generic("SET", TRUE, "set", <<"k1">>, "b", e, "") : e \in {0, 1}}
    \cup {Generic("SET", TRUE, "set", <<"k1">>, "b", 0, f) : f \in {"NX", "XX", "NXXX"}}
    \cup {Generic("SET", TRUE, "set", <<"k1">>, "b", 1, "EXPX")}
    \cup {Generic("EXPIRE", TRUE, "expire", <<"k1">>, NilValue, 1, f) : f \in {"", "NX", "XX", "GT", "LT"}}
    \cup {Generic("EXPIREAT", TRUE, "expire", <<"k1">>, NilValue, 2, f) : f \in {"GT", "LT"}}
    \cup {Generic("GET", FALSE, "getValues", <<"k1">>, NilValue, 0, ""),
          Generic("EXISTS", FALSE, "exists", <<"k1">>, NilValue, 0, ""),
          Generic("TTL", FALSE, "ttl", <<"k1">>, NilValue, 0, ""),
          Generic("EXPIRETIME", FALSE, "ttl", <<"k1">>, NilValue, 0, ""),
          Generic("PERSIST", TRUE, "persist", <<"k1">>, NilValue, 0, ""),
          Generic("DEL", TRUE, "del", <<"k1", "k2">>, NilValue, 0, ""),
          Generic("KEYS", FALSE, "keys", <<>>, NilValue, 0, "")}
    \cup {Generic(n, TRUE, "setValues", <<"k1">>, "b", 0, "") : n \in {"", "quit", "QUIT"}}

\* k1 missing, without an expiry, and with one; k2 stored or not.
GenericPresets ==
  { [k \in {"k2"} |-> KeyData("a", ZeroTime)],
    [k \in Keys |-> KeyData("a", ZeroTime)],
    [k \in Keys |-> KeyData("a", IF k = "k1" THEN 2 ELSE ZeroTime)],
    [k \in {"k1"} |-> KeyData("a", 3)] }

InitGeneric ==
  InitWith(GenericCmds, {Config("standalone", FALSE, "noeviction", 0, 1)}, GenericPresets)

GenericOps(d) ==
  \/ SetParse(d)
  \/ SetExists(d)
  \/ SetReply(d)
  \/ TtlExists(d)
  \/ TtlExpiry(d)
  \/ ExpireExists(d)
  \/ ExpireDecide(d)
  \/ ExpireReply(d)
  \/ PersistExists(d)
  \/ PersistExpiry(d)
  \/ PersistReply(d)
  \/ DelCount(d)
  \/ DelNext(d)
  \/ Exists(d)
  \/ GetKeys(d)

NextGeneric ==
  \/ \E d \in StoreConns : MemoryOps(d) \/ GenericOps(d) \/ Reject(d)
  \/ TickUntil(MaxClock)

SpecGeneric == InitGeneric /\ [][NextGeneric]_vars

\* --- INCR from two connections: a node of any role without a memory limit,
\* the key missing or holding a text that is not an integer.
IncrCmds ==
  {Request("INCR", TRUE, TRUE, "incr", <<"k1">>, NilValue, 0, FALSE, "", FALSE, FALSE, TRUE),
   Request("INCR", TRUE, TRUE, "invalid", <<>>, NilValue, 0, FALSE, "", FALSE, FALSE, TRUE)}

InitIncr ==
  InitWith(IncrCmds, {Config(m, f, "noeviction", 0, 1) : m \in Modes, f \in BOOLEAN},
           {<<>>, [k \in {"k1"} |-> KeyData("a", ZeroTime)]})

NextIncr ==
  \E d \in Dispatchers : HandleCommand(d) \/ GetValues(d) \/ SetValues(d) \/ Incr(d)

SpecIncr == InitIncr /\ [][NextIncr]_vars

\* --- reads on a node of each role with a memory limit and a cache-backed
\* policy: the scheduled cache updates and the governor's entry checks.
InitRoles ==
  InitWith({Cmd("GET", FALSE, FALSE, "getValues", <<"k1">>, NilValue, 0, FALSE),
            Cmd("MGET", FALSE, FALSE, "getValues", <<"k1", "k2">>, NilValue, 0, FALSE)},
           {Config(m, FALSE, p, MemoryLimit, 1) :
              m \in Modes, p \in {"allkeys-lfu", "allkeys-lru", "volatile-lfu"}},
           MemoryPresets)

NextRoles ==
  \/ \E d \in StoreConns : Begin(d) \/ RouteLocal(d) \/ GetValues(d) \/ HandlerDone(d)
  \/ UpdateKeysInCache
  \/ GovernorCheck
  \/ TickUntil(MaxTime)

SpecRoles == InitRoles /\ [][NextRoles]_vars

\* ------------------------------------------------------------ lock order
\* The calls of the store reduced to their lock events, in program order:
\* <<"Lock", l>> and <<"RLock", l>> acquire l in write and read mode,
\* <<"Unlock", l>> and <<"RUnlock", l>> release it (a deferred release stands
\* where the function returns), <<"call", f>> is a call of f. The locks are
\* "store" (server.storeLock), "index" (keysWithExpiry.rwMutex) and "cache"
\* (lfuCache.mutex / lruCache.mutex).

\* deleteKey: entered, then the index's write lock until it returns.
deleteKeyEvents == <<<<"call", "deleteKey">>, <<"Lock", "index">>, <<"Unlock", "index">>>>

\* The delete of one key by role: deleteKey on a standalone node; the consensus
\* apply and the forward to the leader take none of the three locks.
DeleteEvents == IF ~isInCluster THEN deleteKeyEvents ELSE <<>>

\* No key, one key or two keys deleted in a loop.
DeleteRuns == {<<>>, DeleteEvents, DeleteEvents \o DeleteEvents}

\* A DeleteKey callback that calls deleteKey without locking the store.
DeleteKeyUnlocked == deleteKeyEvents

\* HandlerFuncParams.DeleteKey: Lock, defer Unlock, deleteKey.
DeleteKeyCallback ==
  <<<<"Lock", "store">>>> \o deleteKeyEvents \o <<<<"Unlock", "store">>>>

\* What a handler calls: getKeys and setValues (write lock), keysExist and
\* getExpiry (read lock), getValues (write lock around its lazy deletes),
\* setExpiry (the index's write lock inside the store's), DeleteKey.
HandlerEvents ==
  LET locked(body) == <<<<"Lock", "store">>>> \o body \o <<<<"Unlock", "store">>>>
  IN  {locked(b) : b \in DeleteRuns}
        \cup {<<<<"RLock", "store">>, <<"RUnlock", "store">>>>}
        \cup {locked(<<<<"Lock", "index">>, <<"Unlock", "index">>>>)}
        \cup {DeleteKeyCallback}

\* adjustMemoryUsage: nothing when under the limit; else the store's write lock
\* with a deferred unlock and the policy's loop. (rand.Intn panics on an empty
\* index: the goroutine goes no further.)
GovernorEvents ==
  LET locked(body) == <<<<"Lock", "store">>>> \o body \o <<<<"Unlock", "store">>>>
      pick == <<<<"RLock", "index">>, <<"RUnlock", "index">>>>
  IN  {<<>>} \cup
      CASE config.policy \in LFUPolicies \cup LRUPolicies ->
             {locked(<<<<"Lock", "cache">>>> \o b \o <<<<"Unlock", "cache">>>>) : b \in DeleteRuns}
        [] config.policy = "allkeys-random" ->
             {locked(<<<<"Lock", "store">>>> \o DeleteEvents)}
        [] config.policy = "volatile-random" ->
             {locked(pick \o DeleteEvents), locked(pick \o DeleteEvents \o pick \o DeleteEvents),
              <<<<"Lock", "store">>, <<"RLock", "index">>, <<"call", "panic">>>>}
        [] OTHER -> {locked(<<>>)}

\* updateKeysInCache: nothing in a cluster or without a limit; else the cache's
\* Lock / Update / Unlock under an LFU or LRU policy, then adjustMemoryUsage.
UpdateEvents ==
  IF CacheUpdateSkipped THEN {<<>>}
  ELSE {(IF config.policy \in LFUPolicies \cup LRUPolicies
           THEN <<<<"Lock", "cache">>, <<"Unlock", "cache">>>> ELSE <<>>) \o g :
          g \in GovernorEvents}

\* A sampler that takes the store lock before it releases the index.
SamplerNested ==
  {<<<<"RLock", "index">>, <<"Lock", "store">>, <<"RUnlock", "index">>>>
     \o DeleteEvents \o <<<<"Unlock", "store">>>>}

\* evictKeysWithExpiredTTL: nothing on a follower; else the sample under the
\* index's read lock, the deletes under the store's write lock and, when keys
\* were sampled, the call of itself before the deferred unlock.
SamplerEvents ==
  LET round(body) ==
        <<<<"RLock", "index">>, <<"RUnlock", "index">>, <<"Lock", "store">>>> \o body
      unlock == <<<<"Unlock", "store">>>>
  IN  IF isInCluster /\ ~IsRaftLeader THEN {<<>>}
      ELSE {round(<<>>) \o unlock}
             \cup {round(b) \o round(<<>>) \o unlock \o unlock : b \in DeleteRuns \ {<<>>}}

\* The calls a goroutine makes (getState takes no lock).
Routines(t) ==
  CASE t \in Dispatchers -> HandlerEvents
    [] t = Bg -> UpdateEvents
    [] t = Sampler -> SamplerEvents
    [] OTHER -> {}

LockIdle ==
  UNCHANGED <<storeVars, envVars, flagVars, config, cmds, dispVars, samplerVars,
              snapVars, outVars, storeLock, pc, pending>>

\* A goroutine outside any call starts one.
StartRoutine(t) ==
  /\ prog[t] = <<>>
  /\ \E r \in Routines(t) \ {<<>>} : prog' = [prog EXCEPT ![t] = r]
  /\ UNCHANGED held
  /\ LockIdle

\* sync.RWMutex / sync.Mutex: Lock waits until no goroutine holds the lock in
\* any mode, the caller included; RLock waits until none holds it for writing.
Acquire(t) ==
  /\ prog[t] # <<>>
  /\ Head(prog[t])[1] \in {"Lock", "RLock"}
  /\ LET l == Head(prog[t])[2]
         mode == IF Head(prog[t])[1] = "Lock" THEN "w" ELSE "r"
     IN  /\ \A u \in Threads : <<l, "w">> \notin held[u]
         /\ mode = "w" => \A u \in Threads : <<l, "r">> \notin held[u]
         /\ held' = [held EXCEPT ![t] = @ \cup {<<l, mode>>}]
  /\ prog' = [prog EXCEPT ![t] = Tail(@)]
  /\ LockIdle

Release(t) ==
  /\ prog[t] # <<>>
  /\ Head(prog[t])[1] \in {"Unlock", "RUnlock"}
  /\ held' = [held EXCEPT ![t] =
                @ \ {<<Head(prog[t])[2], IF Head(prog[t])[1] = "Unlock" THEN "w" ELSE "r">>}]
  /\ prog' = [prog EXCEPT ![t] = Tail(@)]
  /\ LockIdle

\* The goroutine enters deleteKey.
Call(t) ==
  /\ prog[t] # <<>>
  /\ Head(prog[t]) = <<"call", "deleteKey">>
  /\ prog' = [prog EXCEPT ![t] = Tail(@)]
  /\ UNCHANGED held
  /\ LockIdle

LockConfigs ==
  {Config(m, FALSE, p, MemoryLimit, 1) : m \in {"standalone", "leader"}, p \in Policies}

InitLocks == InitWith({}, LockConfigs, {<<>>})

NextLocks == \E t \in Threads : StartRoutine(t) \/ Acquire(t) \/ Release(t) \/ Call(t)

SpecLocks == InitLocks /\ [][NextLocks]_vars

\* ================================================================ claims

\* C1: the snapshot barrier is a mutual exclusion: stateCopyInProgress and
\* stateMutationInProgress are never both true.
C1_BarrierMutualExclusion == ~(stateCopyInProgress /\ stateMutationInProgress)

\* A write command's call that has set the mutation flag and not yet returned.
InsideMutation(d) == cur[d].write /\ pc[d] \notin {"idle", "hc_wait", "hc_setmut"}

\* C4: the mutation flag is cleared on return: when no write command is between
\* setting the flag and returning, stateMutationInProgress is false.
C4_MutationClearedOnReturn ==
  (\A d \in Dispatchers : ~InsideMutation(d)) => ~stateMutationInProgress

\* A map that holds all of an MSET's entries or none of them: every command of
\* the barrier workload writes both keys with one value.
Whole(m) ==
  \/ DOMAIN m = {}
  \/ DOMAIN m = Keys /\ \A j, k \in Keys : m[j].Value = m[k].Value

\* C5: the map getState returns contains all of a write's entries or none.
C5_SnapshotAtomic == (nSnaps > 0 /\ pc[Snap] = "s_idle") => Whole(snapshot)

\* handleCommand returns in this step.
Returns(d) == ~ret[d].done /\ ret'[d].done

\* What the call of command c must have done when it returns r, by the node's
\* role, the command's sync flag and the forwardCommand setting.
Routed(c, r) ==
  LET local == config.mode = "standalone" \/ ~c.sync
      leader == config.mode = "leader"
      envelope == [type |-> "command", cmd |-> c.name, key |-> ""]
  IN /\ r.ran <=> local
     /\ r.applied <=> (~local /\ leader)
     /\ r.forwarded <=> (~local /\ ~leader /\ config.forwardCommand)
     /\ r.applied => envelope \in raftLog'
     /\ r.forwarded => envelope \in forwarded' /\ r.res = Reply(OkResponse) /\ r.err = ErrNone
     /\ ~r.forwarded => forwarded' = forwarded
     /\ (~local /\ ~leader /\ ~config.forwardCommand) => r.err = ErrNotLeader

\* C10: the routing decision: the handler runs locally iff the node is standalone
\* or the command's sync flag is false; else a leader hands the command to
\* consensus-apply; else with forwardCommand the message is forwarded and +OK
\* returned; else the call fails with the not-leader error and nothing is invoked.
C10_RoutingDecision ==
  [][\A d \in Dispatchers : Returns(d) => Routed(cur[d], ret'[d])]_vars

\* C10 witness: a synced command on a follower was forwarded and answered +OK.
C10_Witness ==
  \E d \in Dispatchers :
    /\ config.mode = "follower" /\ config.forwardCommand
    /\ ret[d].done /\ ret[d].forwarded /\ ~ret[d].ran /\ forwarded # {}

\* The sampler's loop handles a sampled key in this step.
SamplerStep == pc[Sampler] = "t_loop" /\ todo'[Sampler] # todo[Sampler]

\* C2: the TTL sampler deletes only expired keys: a sampled key whose entry has
\* no expiry, or an expiry that has not passed, keeps its entry.
C2_SamplerDeletesOnlyExpired ==
  [][SamplerStep =>
       \A k \in DOMAIN store :
         ~(store[k].ExpireAt # ZeroTime /\ store[k].ExpireAt < now)
           => k \in DOMAIN store' /\ store'[k] = store[k]]_vars

\* getValues handles one key / returns in this step.
GetValuesStep(d) == pc[d] = "gv_loop" /\ idx'[d] = idx[d] + 1

GetValuesReturns(d) == pc[d] = "gv_loop" /\ pc'[d] = "hc_after"

\* C3: lazy expiry in getValues: a key maps to nil when it is absent or its
\* expiry is non-zero and before now, else to the stored value; on a standalone
\* node the expired entry is removed, and is gone when getValues returns: each
\* key the store then holds has the value returned for it.
C3_LazyExpiry ==
  [][\A d \in Dispatchers :
       /\ GetValuesStep(d) =>
            LET key == cur[d].keys[idx[d]]
                present == key \in DOMAIN store
                expired == /\ present
                           /\ store[key].ExpireAt # ZeroTime
                           /\ store[key].ExpireAt < now
            IN /\ values'[d][key] =
                    IF present /\ ~expired THEN store[key].Value ELSE NilValue
               /\ (expired /\ config.mode = "standalone") => key \notin DOMAIN store'
               /\ ~expired => store' = store
       /\ GetValuesReturns(d) =>
            /\ ret'[d].res = values[d]
            /\ DOMAIN values[d] = Range(cur[d].keys)
            /\ config.mode = "standalone" =>
                 \A key \in DOMAIN values[d] :
                   values[d][key] =
                     IF key \in DOMAIN store' THEN store'[key].Value ELSE NilValue]_vars

\* C3 witness: a standalone GET, the first command, met k1 after its expiry had
\* passed: k1 maps to nil and its entry is gone.
C3_Witness ==
  /\ config.mode = "standalone" /\ now = 2 /\ nSweeps = 0 /\ pc[Sampler] = "t_idle"
  /\ nCmds["d1"] = 1 /\ cur["d1"].op = "getValues" /\ pc["d1"] = "hc_after"
  /\ ret["d1"].res["k1"] = NilValue
  /\ "k1" \notin DOMAIN store

\* setValues handles one entry in this step.
SetValuesStep(d) == pc[d] = "sv_loop" /\ todo'[d] # todo[d]

\* C6: setValues replaces an existing key's value and keeps its expiry; a key
\* that did not exist is created with no expiry.
C6_SetValuesKeepsExpiry ==
  [][\A d \in Dispatchers :
       SetValuesStep(d) =>
         /\ \A key \in todo[d] \ todo'[d] :
              /\ key \in DOMAIN store'
              /\ store'[key].Value = cur[d].val
              /\ store'[key].ExpireAt =
                   IF key \in DOMAIN store THEN store[key].ExpireAt ELSE ZeroTime
         /\ \A key \in DOMAIN store \ (todo[d] \ todo'[d]) :
              key \in DOMAIN store' /\ store'[key] = store[key]
         /\ keysWithExpiry' = keysWithExpiry]_vars

\* C6 witness: SET k1 b has replaced the value of k1 and kept its expiry 1.
C6_Witness ==
  \E d \in Dispatchers :
    /\ cur[d].op = "setValues" /\ pc[d] = "hc_after" /\ ret[d].err = ErrNone
    /\ "k1" \in DOMAIN store /\ store["k1"] = KeyData("b", 1)

\* setExpiry's body runs in this step.
SetExpiryStep(d) == pc[d] = "se_body" /\ pc'[d] = "hc_after"

\* C7: the volatile-key index is idempotent: no key occurs in it twice; after
\* setExpiry on a key the key occurs exactly once; and a key leaves the index
\* only when deleteKey removes its entry.
C7_IndexIdempotent ==
  /\ [](\A k \in Keys : Count(keysWithExpiry, k) <= 1)
  /\ [][\A d \in Dispatchers :
          SetExpiryStep(d) => Count(keysWithExpiry', cur[d].keys[1]) = 1]_vars
  /\ [][\A k \in Keys :
          (Count(keysWithExpiry, k) = 1 /\ Count(keysWithExpiry', k) # 1)
            => k \notin DOMAIN store']_vars

\* C7 witness: EXPIRE k2, the first command, has returned on a keyspace whose
\* index held k2 already: k2 is in the index once, beside k1.
C7_Witness ==
  /\ nCmds["d1"] = 1 /\ cur["d1"].op = "setExpiry" /\ pc["d1"] = "hc_after"
  /\ cur["d1"].keys = <<"k2">>
  /\ nSweeps = 0 /\ pc[Sampler] = "t_idle"
  /\ Count(keysWithExpiry, "k2") = 1 /\ Len(keysWithExpiry) = 2

\* C8: cache coherence after delete: once deleteKey(key) has completed, and
\* while the connection's DEL is the last access of the key, the key is absent
\* from the store, from the volatile index and from the eviction cache, however
\* the cache updates scheduled earlier interleave.
C8_DeleteCoherent ==
  \A d \in Dispatchers :
    (cur[d].op = "deleteKey" /\ pc[d] = "hc_after") =>
      LET key == cur[d].keys[1]
      IN /\ key \notin DOMAIN store
         /\ ~Contains(keysWithExpiry, key)
         /\ key \notin cache

\* setValues takes its max-memory test in this step.
SetValuesChecks(d) == pc[d] = "sv_check" /\ pc'[d] # "sv_check"

\* C9: max-memory under noeviction: setValues returns 'max memory reached, key
\* value not set' iff memory is over the configured limit and the policy is
\* noeviction; when it does, it returns at once and the store is as it was.
C9_MaxMemoryNoEviction ==
  [][\A d \in Dispatchers :
       SetValuesChecks(d) =>
         LET refused == ret'[d].err = ErrMaxMemory
         IN /\ refused <=> (IsMaxMemoryExceeded /\ config.policy = "noeviction")
            /\ refused => /\ pc'[d] = "hc_after"
                          /\ store' = store
                          /\ keysWithExpiry' = keysWithExpiry
            /\ ~refused => pc'[d] = "sv_loop" /\ ret'[d].err = ErrNone]_vars

\* C9 witness: SET k1 b was refused under noeviction at the limit, and k1 still
\* holds the value it had.
C9_Witness ==
  \E d \in Dispatchers :
    /\ config.policy = "noeviction" /\ heapInUse >= config.maxMemory
    /\ cur[d].op = "setValues" /\ pc[d] = "hc_after"
    /\ ret[d].err = ErrMaxMemory
    /\ "k1" \in DOMAIN store /\ store["k1"].Value = "a"

\* C11: append-log triggering: a call enqueues its message iff the local handler
\* ran, it returned no error, the command is a write and replay is false; a
\* replayed, failed, read, consensus-applied or forwarded command never enqueues.
C11_AppendLogTriggering ==
  [][\A d \in Dispatchers :
       Returns(d) =>
         /\ Msg(d) \in aofPending' <=>
              (ret'[d].ran /\ ret'[d].err = ErrNone /\ cur[d].write /\ ~cur[d].replay)
         /\ aofPending' \ aofPending \subseteq {Msg(d)}
         /\ Msg(d) \notin aofPending]_vars

\* C11 witness: a SET run by the local handler has returned without error and
\* its message is queued for the log.
C11_Witness ==
  \E d \in Dispatchers :
    /\ ret[d].done /\ ret[d].ran /\ ret[d].err = ErrNone
    /\ [conn |-> d, seq |-> nCmds[d], name |-> "SET"] \in aofPending
    /\ store["k1"].Value = "b"

\* The call enters the dispatcher in this step.
Begins(d) == pc[d] = "idle" /\ nCmds'[d] = nCmds[d] + 1

\* C12: the authorization gate: the ACL collaborator is consulted iff a connection
\* is present, an ACL is configured and embedded is false; when it refuses, the
\* call returns its error and has not set the mutation flag, run the handler,
\* changed the store, applied, forwarded or enqueued.
C12_AuthorizationGate ==
  [][\A d \in Dispatchers :
       /\ Begins(d) =>
            (pc'[d] = "hc_acl" <=>
               (cur'[d].conn /\ config.acl /\ ~cur'[d].embedded))
       /\ Returns(d) =>
            /\ ret'[d].acl <=> (cur[d].conn /\ config.acl /\ ~cur[d].embedded)
            /\ ret'[d].acl => (pc[d] = "hc_acl" <=> ret'[d].err = ErrACL)
            /\ ret'[d].err = ErrACL =>
                 /\ ~ret'[d].ran /\ ~ret'[d].applied /\ ~ret'[d].forwarded
                 /\ UNCHANGED <<store, keysWithExpiry, cache, stateMutationInProgress,
                                raftLog, forwarded, aofPending, aofLog>>]_vars

\* C12 witness: the ACL collaborator refused a call, which returned its error.
C12_Witness ==
  \E d \in Dispatchers :
    /\ config.acl
    /\ ret[d].done /\ ret[d].acl /\ ret[d].err = ErrACL
    /\ ~stateMutationInProgress /\ aofPending = {} /\ raftLog = {} /\ forwarded = {}

\* C14: under volatile-random, over the limit with an empty volatile index, the
\* governor returns an error and releases the store lock: it does not panic.
C14_VolatileRandomNoPanic ==
  (config.policy = "volatile-random" /\ keysWithExpiry = <<>>) => pc[Bg] # "panic"

\* The key's entry is the one a SET with an expiry option wrote, and the clock
\* has passed that expiry.
SetHasExpired(key) ==
  /\ key \in DOMAIN store
  /\ store[key].Value = "b"
  /\ store[key].ExpireAt # ZeroTime
  /\ store[key].ExpireAt < now

\* EXISTS' call of KeysExist.
ExistsStep(d) == pc[d] = "ex_exists" /\ pc'[d] = "hc_after"

\* C13: after SET key value PX D and a clock advance of more than D, EXISTS key
\* reports the key missing, whether or not a GET of the key came in between.
C13_ExistsAfterExpiry ==
  [][\A d \in Dispatchers :
       (ExistsStep(d) /\ SetHasExpired(cur[d].keys[1])) => ret'[d].res = IntReply(0)]_vars


\* The call of getKeys by the handler that replies with its result.
GetKeysStep(d) == pc[d] = "gk_call" /\ pc'[d] = "hc_after"

\* C15: getKeys returns exactly the keys in the store: every store key is in the
\* result, every element of the result is a store key, and the result is as long
\* as the store has entries.
C15_GetKeysExact ==
  [][\A d \in Dispatchers :
       GetKeysStep(d) =>
         /\ Range(ret'[d].res.keys) = DOMAIN store
         /\ Len(ret'[d].res.keys) = Cardinality(DOMAIN store)]_vars

\* C16: TTL replies -2 for a key that is not in the store, -1 for a key stored
\* without an expiry, and else the remaining time, which is never negative and
\* never more than the expiry the key was given; EXPIRETIME replies with the
\* same sentinels and else the expiry.
C16_TtlSentinels ==
  [][\A d \in Dispatchers :
       (Returns(d) /\ cur[d].op = "ttl") =>
         LET key == cur[d].keys[1]
             n == ret'[d].res.integer
         IN /\ key \notin DOMAIN store => n = -2
            /\ (key \in DOMAIN store /\ store[key].ExpireAt = ZeroTime) => n = -1
            /\ (key \in DOMAIN store /\ store[key].ExpireAt # ZeroTime) =>
                 IF cur[d].name = "TTL" THEN n \in 0..store[key].ExpireAt
                 ELSE n = store[key].ExpireAt]_vars

\* The flag's rule, in the words of the command reference.
FlagAllows(flag, current, new) ==
  /\ flag = "NX" => current = ZeroTime
  /\ flag = "XX" => current # ZeroTime
  /\ flag = "GT" => (current # ZeroTime /\ new > current)
  /\ flag = "LT" => (current = ZeroTime \/ new < current)

\* EXPIRE's test of the flag, and the SetExpiry it may lead to.
ExpireDecideStep(d) == pc[d] = "exp_expiry" /\ pc'[d] # "exp_expiry"

ExpireSets(d) == cur[d].op = "expire" /\ pc[d] = "se_body" /\ pc'[d] # "se_body"

SetParseStep(d) == pc[d] = "set_parse" /\ pc'[d] # "set_parse"

SetExistsStep(d) == pc[d] = "set_exists" /\ pc'[d] # "set_exists"

\* A SET that has not passed its checks, or has failed one.
SetBeforeWrite(d) ==
  /\ cur[d].op = "set"
  /\ pc[d] \in {"hc_wait", "hc_setmut", "hc_route", "set_parse", "set_exists", "hc_after"}

\* C18: SET with NX on a key that exists fails with "key already exists" and
\* leaves the key's value and expiry as they were; SET with XX on a key that does
\* not exist fails with "key does not exist" and does not create the key; SET
\* with NX and XX together, or with two expiry options, fails and neither creates
\* nor changes the key.
C18_SetConditions ==
  [][\A d \in Dispatchers :
       LET key == cur[d].keys[1]
       IN /\ (SetParseStep(d) /\ cur[d].flag \in {"NXXX", "EXPX"}) =>
               (pc'[d] = "hc_after" /\ ret'[d].err # ErrNone)
          /\ (SetExistsStep(d) /\ cur[d].flag = "NX" /\ key \in DOMAIN store) =>
               (pc'[d] = "hc_after" /\ ret'[d].err = "key already exists")
          /\ (SetExistsStep(d) /\ cur[d].flag = "XX" /\ key \notin DOMAIN store) =>
               (pc'[d] = "hc_after" /\ ret'[d].err = "key does not exist")
          /\ SetBeforeWrite(d) => UNCHANGED <<store, keysWithExpiry>>
          /\ (pc[d] = "hc_after" /\ ret[d].err # ErrNone /\ pc'[d] # pc[d]) => Returns(d)
          /\ (Returns(d) /\ cur[d].op = "set") =>
               /\ cur[d].flag \in {"NXXX", "EXPX"} => ret'[d].err # ErrNone
               /\ ret'[d].err = "key already exists" => key \in DOMAIN store
               /\ ret'[d].err = "key does not exist" => key \notin DOMAIN store]_vars

\* SET k1 b NX has failed on the stored k1, whose value and expiry are the preset's.
C18_Witness ==
  \E d \in Dispatchers :
    /\ pc[d] = "hc_after"
    /\ cur[d].flag = "NX"
    /\ ret[d].err = "key already exists"
    /\ store["k1"] = KeyData("a", 2)

\* The named keys of the connection's command that are in the store.
NamedPresent(d) == Range(cur[d].keys) \cap DOMAIN store

\* DEL's count of the keys present, and a DeleteKey it calls.
DelCountStep(d) == pc[d] = "del_count" /\ pc'[d] # "del_count"

DelDeletes(d) == cur[d].op = "del" /\ pc[d] = "dk_body" /\ pc'[d] # "dk_body"

\* C19: DEL k1 ... kn replies with the number of named keys that were in the store
\* before it ran, and when it returns none of the named keys is in the store.
C19_DelCountsAndRemoves ==
  [][\A d \in Dispatchers :
       /\ DelCountStep(d) => hlocal'[d].count = Cardinality(NamedPresent(d))
       /\ DelDeletes(d) =>
            store' = [k \in DOMAIN store \ {cur[d].keys[idx[d]]} |-> store[k]]
       /\ (cur[d].op = "del" /\ ~DelDeletes(d)) => store' = store
       /\ (Returns(d) /\ cur[d].op = "del") =>
            /\ NamedPresent(d) = {}
            /\ ret'[d].err = ErrNone
            /\ ret'[d].res = IntReply(hlocal[d].count)]_vars

\* DEL k1 k2 has run on the store that held k1 only: the count is 1 and neither
\* key is stored.
C19_Witness ==
  \E d \in Dispatchers :
    /\ pc[d] = "hc_after"
    /\ cur[d].op = "del"
    /\ ret[d].res = IntReply(1)
    /\ NamedPresent(d) = {}

\* PERSIST's two tests, and the SetExpiry it may lead to.
PersistExistsStep(d) == pc[d] = "per_exists" /\ pc'[d] # "per_exists"

PersistExpiryStep(d) == pc[d] = "per_expiry" /\ pc'[d] # "per_expiry"

PersistSets(d) == cur[d].op = "persist" /\ pc[d] = "se_body" /\ pc'[d] # "se_body"

\* C20: PERSIST key replies 1 and clears the expiry, keeping the value, iff the
\* key is stored with an expiry; it replies 0 and changes nothing when the key is
\* missing or has no expiry, and never creates the key.
C20_Persist ==
  [][\A d \in Dispatchers :
       LET key == cur[d].keys[1]
           volatile == key \in DOMAIN store /\ store[key].ExpireAt # ZeroTime
       IN /\ (PersistExistsStep(d) /\ key \notin DOMAIN store) =>
               (pc'[d] = "hc_after" /\ ret'[d].res = IntReply(0))
          /\ PersistExpiryStep(d) =>
               IF volatile THEN pc'[d] = "se_lock"
               ELSE pc'[d] = "hc_after" /\ ret'[d].res = IntReply(0)
          /\ PersistSets(d) =>
               /\ volatile
               /\ store' = [store EXCEPT ![key] = KeyData(store[key].Value, ZeroTime)]
               /\ pc'[d] = "per_done"
          /\ (cur[d].op = "persist" /\ ~PersistSets(d)) => store' = store
          /\ (cur[d].op = "persist" /\ pc'[d] = "per_done") => (PersistSets(d) \/ pc[d] = "per_done")
          /\ (Returns(d) /\ cur[d].op = "persist") =>
               /\ ret'[d].res \in {IntReply(0), IntReply(1)}
               /\ ret'[d].res = IntReply(1) => store[key] \in {KeyData(v, ZeroTime) : v \in Values}
               /\ ~volatile]_vars

\* PERSIST k1 has cleared the preset's expiry, kept the value, and is about to
\* reply 1.
C20_Witness ==
  \E d \in Dispatchers :
    /\ pc[d] = "per_done"
    /\ cur[d].op = "persist"
    /\ store["k1"] = KeyData("a", ZeroTime)

\* The return of a call that was rejected before the command lookup.
Rejects(d) == pc[d] = "hc_reject" /\ pc'[d] # "hc_reject"

\* C21: handleCommand on an empty decoded array fails with "empty command", and on
\* a first token that is "quit" in any letter case with io.EOF, before any
\* command lookup: no handler runs, stateMutationInProgress is not set, the store
\* is unchanged and nothing is enqueued to the log.
C21_PreDispatchRejection ==
  [][\A d \in Dispatchers :
       /\ Begins(d) =>
            (pc'[d] = "hc_reject" <=> cur'[d].name \in {"", "quit", "QUIT", "Quit"})
       /\ pc[d] = "hc_reject" =>
            UNCHANGED <<store, keysWithExpiry, cache, stateMutationInProgress, aofPending,
                        aofLog, raftLog, forwarded, storeLock>>
       /\ Rejects(d) =>
            /\ Returns(d)
            /\ ret'[d].err = IF cur[d].name = "" THEN "empty command" ELSE "EOF"
            /\ ~ret'[d].ran /\ ~ret'[d].applied /\ ~ret'[d].forwarded /\ ~ret'[d].acl]_vars

\* A QUIT in capitals has returned io.EOF: no handler ran and the mutation flag
\* is not set, though the request named a write.
C21_Witness ==
  \E d \in Dispatchers :
    /\ ret[d].done
    /\ ret[d].err = "EOF"
    /\ ~ret[d].ran
    /\ ~stateMutationInProgress
    /\ nCmds[d] = 1
    /\ pc[d] = "idle"

\* The sampler is inside an invocation of evictKeysWithExpiredTTL.
SamplerRunning == pc[Sampler] \in {"t_lock", "t_loop", "t_again"}

\* C22: on a standalone node or a leader, whatever the volatile index holds,
\* every invocation of evictKeysWithExpiredTTL eventually returns, also when it
\* samples again, and once it has returned the store lock is free of it.
C22_SamplerTerminates ==
  SamplerRunning ~> (pc[Sampler] = "t_idle" /\ storeLock # Sampler)

\* C23: under allkeys-random, when the heap stays at the limit after the forced
\* GC, adjustMemoryUsage evicts store keys one at a time and eventually returns
\* (under the limit, or with an error once the store is empty), having released
\* the store lock.
C23_AllKeysRandomTerminates ==
  (config.policy = "allkeys-random" /\ pc[Bg] = "g_lock")
    ~> (pc[Bg] = "b_idle" /\ storeLock # Bg)

\* A write command's handler is running locally on connection d.
WriteHandlerRuns(d) == cur[d].write /\ ret[d].ran /\ ~ret[d].done

\* C24: while at least one write command's handler is running locally,
\* stateMutationInProgress is true: the completion of another command, a write on
\* another connection or a read, does not clear it.
C24_FlagAccurate ==
  (\E d \in Dispatchers : WriteHandlerRuns(d)) => stateMutationInProgress

\* No command is being handled, and none will be.
Quiet == (\A d \in Dispatchers : pc[d] = "idle") /\ Received = MaxCmds

\* C25: if every handler returns and no more commands arrive, a getState call
\* that is waiting for the flags eventually makes its copy and returns.
C25_SnapshotLiveness ==
  (pc[Snap] \in {"s_loadc", "s_loadm"}) ~> (pc[Snap] = "s_idle" \/ ~Quiet)

\* getState copies an entry out of the store map.
GetStateCopies == pc[Snap] = "s_copy" /\ snapshot' # snapshot

\* C26: every read of the store map is made by a thread that holds the store
\* lock, so never while another thread holds it in write mode, and every write
\* of the store map is made by the thread that holds the store write lock.
C26_StoreLockDiscipline ==
  [][/\ GetStateCopies => storeLock \in {NoThread, Snap}
     /\ store' # store => storeLock \in Threads]_vars

\* adjustMemoryUsage holds the cache mutex (Lock with a deferred Unlock) for
\* the whole of its LFU / LRU loop; no other code holds it across steps.
HoldsCacheMutex(t) == t = Bg /\ pc[Bg] = "g_cache"

\* updateKeysInCache's Lock / Update / Unlock of one scheduled update.
CacheUpdateStep == pc[Bg] = "b_idle" /\ pending' # pending

\* C27: every change of an eviction cache (Update, Delete, Pop) is made by a
\* thread that holds the cache mutex: the update goroutine's own
\* Lock / Update / Unlock, or the thread running the step (the holder of the
\* store lock) while it holds the cache mutex.
C27_CacheLockDiscipline ==
  [][cache' # cache => (CacheUpdateStep \/ HoldsCacheMutex(storeLock))]_vars

\* A step calls raftApplyDeleteKey or ForwardDeleteKey: a delete-key envelope
\* joins the consensus log or the messages forwarded to the leader.
DeleteKeySent ==
  \E e \in (raftLog' \ raftLog) \cup (forwarded' \ forwarded) : e.type = "delete-key"

\* C28: the consensus-apply delete and the forward-to-leader delete are never
\* invoked while the calling thread holds the store lock.
C28_NoCollaboratorUnderLock == [][DeleteKeySent => storeLock = NoThread]_vars

\* The next lock event of goroutine t is an acquisition of lock l.
Wants(t, l) == prog[t] # <<>> /\ Head(prog[t]) \in {<<"Lock", l>>, <<"RLock", l>>}

Holds(t, l) == <<l, "w">> \in held[t] \/ <<l, "r">> \in held[t]

\* C29: a goroutine about to enter deleteKey holds the store lock in write
\* mode, on every path that calls it.
C29_DeleteKeyUnderWriteLock ==
  \A t \in Threads :
    (prog[t] # <<>> /\ Head(prog[t]) = <<"call", "deleteKey">>) => <<"store", "w">> \in held[t]

\* The sampler is inside deleteKey with the store write lock held, while a
\* handler's DeleteKey callback waits for that lock before its own deleteKey.
C29_Witness ==
  /\ {<<"store", "w">>, <<"index", "w">>} \subseteq held[Sampler]
  /\ \E d \in Dispatchers : prog[d] = DeleteKeyCallback

\* C30: no goroutine asks for the store lock while it holds the index's or a
\* cache's lock, and none asks for a cache's lock while it holds the index's.
C30_LockOrder ==
  \A t \in Threads :
    /\ Wants(t, "store") => ~Holds(t, "index") /\ ~Holds(t, "cache")
    /\ Wants(t, "cache") => ~Holds(t, "index")

\* The governor holds the three locks at once, taken in the one order, while
\* the sampler, the index sampled and released, waits for the store lock.
C30_Witness ==
  /\ {<<"store", "w">>, <<"cache", "w">>, <<"index", "w">>} \subseteq held[Bg]
  /\ Wants(Sampler, "store")
  /\ \E d \in Dispatchers : Wants(d, "store")

\* The sampler leaves its delete loop: it returns or it samples again.
SamplerDecides ==
  pc[Sampler] = "t_loop" /\ todo[Sampler] = {} /\ pc'[Sampler] # "t_loop"

SamplerDraws == pc[Sampler] \in {"t_idle", "t_again"} /\ pc'[Sampler] = "t_lock"

\* C40: a round draws exactly min(configured sample, size of the index) keys,
\* pairwise distinct and all in the index at the time of sampling; on a
\* non-leader cluster member the sampler draws nothing and deletes nothing.
C40_SamplerSample ==
  [][/\ SamplerDraws =>
          /\ Cardinality(todo'[Sampler]) = Min(config.evictionSample, Len(keysWithExpiry))
          /\ sample'.sampleSize = Cardinality(todo'[Sampler])
          /\ todo'[Sampler] \subseteq Range(keysWithExpiry)
     /\ (isInCluster /\ ~IsRaftLeader) =>
          /\ pc'[Sampler] = "t_idle" /\ todo'[Sampler] = {}
          /\ nSweeps' # nSweeps => UNCHANGED <<storeVars, raftLog, forwarded, sample>>]_vars

\* Two distinct keys drawn from an index of two.
C40_Witness ==
  /\ pc[Sampler] = "t_lock" /\ Cardinality(todo[Sampler]) = 2
  /\ Len(keysWithExpiry) = 2 /\ config.evictionSample = 2

\* C32: on a standalone node every key whose entry carries an expiry is in the
\* volatile-key index.
C32_IndexComplete ==
  ~isInCluster =>
    \A k \in DOMAIN store : store[k].ExpireAt # ZeroTime => Contains(keysWithExpiry, k)

\* k2 carries an expiry that only a setExpiry after the first tick gives it.
C32_Witness ==
  /\ ~isInCluster /\ now >= 2
  /\ "k2" \in DOMAIN store /\ store["k2"].ExpireAt = now + 1
  /\ Contains(keysWithExpiry, "k2")

\* C33: a key enters the volatile index only with an entry that carries an
\* expiry (an entry that had one since its insertion is in the index already):
\* setExpiry with the empty expiry on a key that never had one does not put
\* the key in the index.
C33_IndexSound ==
  [][\A k \in Keys :
       (~Contains(keysWithExpiry, k) /\ Contains(keysWithExpiry', k)) =>
         (k \in DOMAIN store' /\ store'[k].ExpireAt # ZeroTime)]_vars

\* setExpiry's body runs for goroutine d.
SetExpiryRuns(d) == pc[d] = "se_body" /\ pc'[d] # "se_body"

\* C35: setExpiry never adds a key to the store: an absent key stays absent,
\* and a present key keeps its value, only expireAt changing.
C35_SetExpiryAddsNoKey ==
  [][\A d \in Dispatchers : SetExpiryRuns(d) =>
       /\ DOMAIN store' = DOMAIN store
       /\ \A k \in DOMAIN store : store'[k].Value = store[k].Value]_vars

\* The INCR commands that ran locally and returned without an error: each is
\* queued for the append-only log once.
IncrsDone == Cardinality(aofPending)

\* C31: on a standalone node where the key was missing, once every INCR has
\* returned the key holds the number of INCRs that succeeded, and the replies
\* of two connections differ: no increment is lost.
C31_IncrAtomic ==
  (~isInCluster /\ IncrsDone > 0 /\ \A d \in Dispatchers : pc[d] = "idle") =>
    /\ "k1" \in DOMAIN store /\ store["k1"].Value = FormatInt(IncrsDone)
    /\ \A d, e \in Dispatchers :
         (d # e /\ ret[d].done /\ ret[e].done /\ ret[d].err = ErrNone /\ ret[e].err = ErrNone)
           => ret[d].res # ret[e].res

\* No command is being handled and no background cache update is pending or
\* running.
Quiescent ==
  /\ \A d \in Dispatchers : pc[d] = "idle"
  /\ pending = {} /\ pc[Bg] = "b_idle"

\* C34: on a standalone node with a memory limit and an LFU or LRU policy, in
\* every quiescent state each key of the eviction cache is in the store.
C34_CacheWithinStore ==
  (/\ ~isInCluster /\ config.maxMemory # 0
   /\ config.policy \in LFUPolicies \cup LRUPolicies
   /\ Quiescent) => cache \subseteq DOMAIN store

\* C36: the write commands of one connection are queued in the append-only
\* log in the order in which they arrived and were applied.
C36_AppendLogOrder ==
  \A i, j \in 1..Len(aofLog) :
    (i < j /\ aofLog[i].conn = aofLog[j].conn) => aofLog[i].seq < aofLog[j].seq

\* A connection's last command returned k's stored value.
HasRead(k) ==
  \E d \in Dispatchers :
    /\ ret[d].done /\ ret[d].err = ErrNone
    /\ k \in DOMAIN ret[d].res /\ ret[d].res[k] # NilValue

\* C37: with a memory limit and an allkeys cache policy, on a standalone node
\* and on a cluster leader the cache update of a key that was read has run
\* once the node is quiescent; on a non-leader member no update and no
\* governor run takes place.
C37_CacheUpdateByRole ==
  /\ (/\ ~isInCluster \/ IsRaftLeader
      /\ config.policy \in {"allkeys-lfu", "allkeys-lru"}
      /\ Quiescent /\ HasRead("k1")) => "k1" \in cache
  /\ (isInCluster /\ ~IsRaftLeader) => (cache = {} /\ pending = {} /\ pc[Bg] = "b_idle")

\* getValues looks at its next key, which is stored and expired.
MeetsExpired(d) ==
  /\ pc[d] = "gv_loop" /\ idx[d] <= Len(cur[d].keys) /\ idx'[d] = idx[d] + 1
  /\ cur[d].keys[idx[d]] \in DOMAIN store
  /\ Expired(store[cur[d].keys[idx[d]]], now)

\* C38: on a non-leader cluster member, getValues meeting an expired entry
\* forwards a delete-key request to the leader whatever forwardCommand is,
\* yields nil for the key and leaves the store, the index and the cache alone.
C38_LazyExpiryOnFollower ==
  [][\A d \in Dispatchers :
       (isInCluster /\ ~IsRaftLeader /\ MeetsExpired(d)) =>
         /\ [type |-> "delete-key", cmd |-> "", key |-> cur[d].keys[idx[d]]] \in forwarded'
         /\ values'[d][cur[d].keys[idx[d]]] = NilValue
         /\ UNCHANGED <<storeVars, raftLog>>]_vars

\* A follower with forwardCommand off has forwarded the delete of k1, which it
\* still stores, and its GET has returned nil.
C38_Witness ==
  /\ isInCluster /\ ~IsRaftLeader /\ ~config.forwardCommand
  /\ [type |-> "delete-key", cmd |-> "", key |-> "k1"] \in forwarded
  /\ "k1" \in DOMAIN store /\ Expired(store["k1"], now)
  /\ \E d \in Dispatchers :
       ret[d].done /\ "k1" \in DOMAIN ret[d].res /\ ret[d].res["k1"] = NilValue

====
